---- MODULE Spec2Model ----
(***************************************************************************)
(* A model of omni-transactions-sdk: additive key derivation over          *)
(* secp256k1 (OmniKey, MPCKey, MockMPCKey, OmniPublicKey, OmniSecretKey)    *)
(* and the request/response protocol of Contract.sign in its three         *)
(* source variants.                                                        *)
(*                                                                         *)
(* Strings are sequences of one-character strings.  A JavaScript number is *)
(* a record [t |-> "number", int |-> i, frac |-> f] standing for i + f/10, *)
(* and undefined is [t |-> "undefined"].                                    *)
(***************************************************************************)
EXTENDS Integers, Sequences, FiniteSets, TLC

VARIABLES call, omniV1, omni, omniPub, mpc, mock, osk, opk, threw, depth, first,
          calls, received, wire, tree, probe, heap, history

signVars == <<call>>
keyVars == <<omniV1, omni, omniPub, mpc, mock, osk, opk, threw, depth, first>>
concVars == <<calls, received>>
wireVars == <<wire>>
treeVars == <<tree>>
probeVars == <<probe>>
heapVars == <<heap, history>>
vars == <<call, omniV1, omni, omniPub, mpc, mock, osk, opk, threw, depth, first,
          calls, received, wire, tree, probe, heap, history>>

-----------------------------------------------------------------------------
(* Bounds of the model *)

\* length of a chain of derive calls
MaxDerive == 3
\* width in bits of the digest that stands for SHA3-256
HashBits == 6
\* number of sign calls in flight on one Contract
MaxCalls == 3

-----------------------------------------------------------------------------
(* Strings and JavaScript values *)

Rep(c, n) == [i \in 1..n |-> c]

HexDigits == {"0", "1", "2", "3", "4", "5", "6", "7", "8", "9"}
HexLower == {"a", "b", "c", "d", "e", "f"}
HexUpper == {"A", "B", "C", "D", "E", "F"}
HexChars == HexDigits \cup HexLower \cup HexUpper

\* the code points String.prototype.trim strips (WhiteSpace and LineTerminator of
\* ECMAScript) that a string of this module can hold: space, tab, line feed,
\* carriage return, form feed, vertical tab, U+00A0, U+1680 and U+FEFF; the other
\* space separators (U+2000..U+200A, U+2028, U+2029, U+202F, U+205F, U+3000)
\* cannot be written in a string here
WhiteSpace == {" ", "\t", "\n", "\r", "\f", "", " ", " ", "﻿"}

\* String.prototype.trim: drop leading and trailing white space
RECURSIVE TrimStart(_)
TrimStart(s) ==
    IF s # <<>> /\ Head(s) \in WhiteSpace THEN TrimStart(Tail(s)) ELSE s

RECURSIVE TrimEnd(_)
TrimEnd(s) ==
    IF s # <<>> /\ s[Len(s)] \in WhiteSpace
    THEN TrimEnd(SubSeq(s, 1, Len(s) - 1))
    ELSE s

Trim(s) == TrimEnd(TrimStart(s))

\* String.prototype.slice(k) for 0 <= k
Slice(s, k) == SubSeq(s, k + 1, Len(s))

\* what a call that can throw gives: its value, or the message of its error
Ok(v) == [ok |-> TRUE, v |-> v]
Err(msg) == [ok |-> FALSE, v |-> msg]

Undefined == [t |-> "undefined"]
Num(i) == [t |-> "number", int |-> i, frac |-> 0]
NumFrac(i, f) == [t |-> "number", int |-> i, frac |-> f]

IsUndefined(v) == v.t = "undefined"
IsIntegerNum(v) == v.t = "number" /\ v.frac = 0
\* v >= k for an integer k
NumAtLeast(v, k) == v.t = "number" /\ v.int >= k
\* v <= k for an integer k
NumAtMost(v, k) == v.t = "number" /\ (v.int < k \/ (v.int = k /\ v.frac = 0))

-----------------------------------------------------------------------------
(* Zod schemas of contract-types.ts / types.ts *)

\* z.string().regex(/^[0-9a-fA-F]+$/).refine(val.length % 2 === 0)
hexString(val) ==
    /\ Len(val) >= 1
    /\ \A i \in 1..Len(val) : val[i] \in HexChars
    /\ Len(val) % 2 = 0

hexStringBytes(bytes, val) ==
    hexString(val) /\ Len(val) = bytes * 2

\* a hash schema that asks for 32 bytes or more: not the schema of the code
ECDSAHashSchema_atLeast(val) == hexString(val) /\ Len(val) >= 32 * 2

ECDSAHashSchema(val) == hexStringBytes(32, val)

\* a message schema without the upper limit: not the schema of the code
EDDSAMessageSchema_noMax(val) == hexString(val) /\ Len(val) >= 64

EDDSAMessageSchema(val) ==
    hexString(val) /\ Len(val) >= 64 /\ Len(val) <= 2464

\* contract-types.ts: z.string().min(1)
PathSchema(val) == Len(val) >= 1

\* types.ts: z.string().min(1).refine(val.trim().length > 0)
PathSchemaTrim(val) == Len(val) >= 1 /\ Len(Trim(val)) > 0

\* z.number().int().min(0)
DomainIdSchema(v) == IsIntegerNum(v) /\ NumAtLeast(v, 0)

\* z.union([z.object({Ecdsa: ECDSAHashSchema}), z.object({Eddsa: EDDSAMessageSchema})])
PayloadSchema(p) ==
    \/ "Ecdsa" \in DOMAIN p /\ ECDSAHashSchema(p.Ecdsa)
    \/ "Eddsa" \in DOMAIN p /\ EDDSAMessageSchema(p.Eddsa)

\* the parsed payload: the first option of the union that matches, its key only
PayloadParsed(p) ==
    IF "Ecdsa" \in DOMAIN p /\ ECDSAHashSchema(p.Ecdsa)
    THEN [Ecdsa |-> p.Ecdsa]
    ELSE [Eddsa |-> p.Eddsa]

\* SignRequestArgsSchema: domain_id: DomainIdSchema.default(0)
SignRequestArgsValid(args) ==
    /\ IsUndefined(args.request.domain_id) \/ DomainIdSchema(args.request.domain_id)
    /\ PathSchema(args.request.path)
    /\ PayloadSchema(args.request.payload_v2)

SignRequestArgsParsed(args) ==
    [request |->
        [domain_id |-> IF IsUndefined(args.request.domain_id)
                       THEN Num(0)
                       ELSE args.request.domain_id,
         path |-> args.request.path,
         payload_v2 |-> PayloadParsed(args.request.payload_v2)]]

\* signatureType: z.enum(SignatureType).default(SignatureType.ECDSA) of the object
\* API and the default value of the positional parameter; "undefined" is the
\* argument left out
SignatureTypeOrDefault(signatureType) ==
    IF signatureType = "undefined" THEN "ecdsa" ELSE signatureType

\* SignRequestSchema of types.ts (object API)
SignRequestValid(req) ==
    /\ PathSchemaTrim(req.path)
    /\ Len(req.message) >= 1
    /\ SignatureTypeOrDefault(req.signatureType) \in {"ecdsa", "eddsa"}
    /\ IsUndefined(req.domainId) \/ DomainIdSchema(req.domainId)

\* MPCECDSASignatureResponseSchema
MPCECDSASignatureResponseSchema(v) ==
    /\ v.scheme = "Secp256k1"
    /\ {"big_r", "s", "recovery_id"} \subseteq DOMAIN v
    /\ hexString(v.big_r.affine_point)
    /\ hexString(v.s.scalar)
    /\ IsIntegerNum(v.recovery_id)
    /\ NumAtLeast(v.recovery_id, 0)
    /\ NumAtMost(v.recovery_id, 3)

\* a signature schema that takes an array of any length: not the schema of the code
MPCEDDSASignatureResponseSchema_anyLength(v) ==
    /\ v.scheme = "Ed25519"
    /\ "signature" \in DOMAIN v
    /\ \A i \in 1..Len(v.signature) :
          /\ IsIntegerNum(v.signature[i])
          /\ NumAtLeast(v.signature[i], 0)
          /\ NumAtMost(v.signature[i], 255)

\* MPCEDDSASignatureResponseSchema
MPCEDDSASignatureResponseSchema(v) ==
    /\ v.scheme = "Ed25519"
    /\ "signature" \in DOMAIN v
    /\ Len(v.signature) = 64
    /\ \A i \in 1..Len(v.signature) :
          /\ IsIntegerNum(v.signature[i])
          /\ NumAtLeast(v.signature[i], 0)
          /\ NumAtMost(v.signature[i], 255)

\* z.discriminatedUnion("scheme", [...])
MPCSignatureResponseSchema(v) ==
    \/ MPCECDSASignatureResponseSchema(v)
    \/ MPCEDDSASignatureResponseSchema(v)

-----------------------------------------------------------------------------
(* @noble/curves: the parameters of the curve and the byte helpers *)

\* secp256k1.CURVE.Fp.ORDER, the prime of the coordinate field
CurveP == 43
\* secp256k1.CURVE.n, the order of the group
CurveN == 31

HexVal(c) ==
    CASE c = "0" -> 0 [] c = "1" -> 1 [] c = "2" -> 2 [] c = "3" -> 3
      [] c = "4" -> 4 [] c = "5" -> 5 [] c = "6" -> 6 [] c = "7" -> 7
      [] c = "8" -> 8 [] c = "9" -> 9
      [] c \in {"a", "A"} -> 10 [] c \in {"b", "B"} -> 11
      [] c \in {"c", "C"} -> 12 [] c \in {"d", "D"} -> 13
      [] c \in {"e", "E"} -> 14 [] c \in {"f", "F"} -> 15

\* hexToBytes: one byte for every two hex characters
hexToBytes(hex) ==
    [i \in 1..(Len(hex) \div 2) |-> 16 * HexVal(hex[2 * i - 1]) + HexVal(hex[2 * i])]

\* bytesToNumberBE: the bytes read as a big-endian integer, 0 for no bytes
RECURSIVE bytesToNumberBE(_)
bytesToNumberBE(bytes) ==
    IF bytes = <<>>
    THEN 0
    ELSE 256 * bytesToNumberBE(SubSeq(bytes, 1, Len(bytes) - 1)) + bytes[Len(bytes)]

\* bytesToNumberBE for a number that is only compared with `bound`: the number
\* itself below `bound`, and `bound` for every number from `bound` up (the code
\* computes with integers of any size, so a long byte string is a large number)
RECURSIVE bytesToNumberBE_upTo(_, _)
bytesToNumberBE_upTo(bytes, bound) ==
    IF bytes = <<>>
    THEN 0
    ELSE LET high == bytesToNumberBE_upTo(SubSeq(bytes, 1, Len(bytes) - 1), bound)
         IN  IF high >= bound \/ 256 * high + bytes[Len(bytes)] >= bound
             THEN bound
             ELSE 256 * high + bytes[Len(bytes)]

-----------------------------------------------------------------------------
(* Contract.sign: the part that runs before the transport is awaited *)

Throw(stage, msg) == [kind |-> "throw", stage |-> stage, message |-> msg]
Submit(submitted) == [kind |-> "submit", call |-> submitted]

ZodError == "ZodError"
PathRequired == "Path is required and cannot be empty"
MessageRequired == "Message is required and cannot be empty"

\* the wire arguments a caller of the args API writes for its intent
CallerArgs(req) ==
    [request |->
        [domain_id |-> req.domainId,
         path |-> req.path,
         payload_v2 |-> IF req.signatureType = "ecdsa"
                        THEN [Ecdsa |-> req.message]
                        ELSE [Eddsa |-> req.message]]]

\* contract.ts, Contract.sign(args) up to the functionCall
Contract_sign_args(args) ==
    IF ~SignRequestArgsValid(args)
    THEN Throw("validation", ZodError)
    ELSE LET validatedArgs == SignRequestArgsParsed(args)
             payload == validatedArgs.request.payload_v2
             isECDSA == "Ecdsa" \in DOMAIN payload
             isEDDSA == "Eddsa" \in DOMAIN payload
         IN  IF ~isECDSA /\ ~isEDDSA
             THEN Throw("validation", "Unknown payload type - must be Ecdsa or Eddsa")
             ELSE Submit([via |-> "functionCall",
                          methodName |-> "sign",
                          args |-> validatedArgs,
                          gasTGas |-> 300,
                          attachedDeposit |-> 1])

\* SignRequestArgsSchema.parse(args): the parsed arguments, or the ZodError it throws
SignRequestArgsSchema_parse(args) ==
    IF SignRequestArgsValid(args)
    THEN Ok(SignRequestArgsParsed(args))
    ELSE Err(ZodError)

\* contract.ts, Contract.createECDSARequest(path, hash, domainId = 0): the request
\* is run through SignRequestArgsSchema.parse, which throws on an invalid one
createECDSARequest(path, hash, domainId) ==
    SignRequestArgsSchema_parse(
        [request |->
            [domain_id |-> IF IsUndefined(domainId) THEN Num(0) ELSE domainId,
             path |-> path,
             payload_v2 |-> [Ecdsa |-> hash]]])

\* a builder that files the message under the Ecdsa key: not the code
createEDDSARequest_asEcdsa(path, message, domainId) ==
    SignRequestArgsSchema_parse(
        [request |->
            [domain_id |-> IF IsUndefined(domainId) THEN Num(0) ELSE domainId,
             path |-> path,
             payload_v2 |-> [Ecdsa |-> message]]])

\* contract.ts, Contract.createEDDSARequest(path, message, domainId = 0): the request
\* is run through SignRequestArgsSchema.parse, which throws on an invalid one
createEDDSARequest(path, message, domainId) ==
    SignRequestArgsSchema_parse(
        [request |->
            [domain_id |-> IF IsUndefined(domainId) THEN Num(0) ELSE domainId,
             path |-> path,
             payload_v2 |-> [Eddsa |-> message]]])

\* a request built by createECDSARequest / createEDDSARequest and passed to sign;
\* when the builder throws, sign is never called
Contract_sign_built(req) ==
    LET built == IF req.signatureType = "ecdsa"
                 THEN createECDSARequest(req.path, req.message, req.domainId)
                 ELSE createEDDSARequest(req.path, req.message, req.domainId)
    IN  IF ~built.ok
        THEN Throw("validation", built.v)
        ELSE Contract_sign_args(built.v)

\* Contract.sign(path, message, signatureType = "ecdsa", domainId?) up to the functionCall
Contract_sign_positional(req) ==
    IF req.path = <<>> \/ Len(Trim(req.path)) = 0
    THEN Throw("validation", PathRequired)
    ELSE IF req.message = <<>> \/ Len(Trim(req.message)) = 0
    THEN Throw("validation", MessageRequired)
    ELSE LET signatureType == SignatureTypeOrDefault(req.signatureType)
             finalDomainId == IF IsUndefined(req.domainId)
                              THEN (IF signatureType = "ecdsa" THEN Num(0) ELSE Num(1))
                              ELSE req.domainId
             messageOk == IF signatureType = "ecdsa"
                          THEN ECDSAHashSchema(req.message)
                          ELSE EDDSAMessageSchema(req.message)
         IN  IF ~messageOk
             THEN Throw("validation", ZodError)
             ELSE Submit([via |-> "functionCall",
                          methodName |-> "sign",
                          args |-> [request |->
                                      [domain_id |-> finalDomainId,
                                       path |-> req.path,
                                       payload_v2 |-> IF signatureType = "ecdsa"
                                                      THEN [Ecdsa |-> req.message]
                                                      ELSE [Eddsa |-> req.message]]],
                          gasTGas |-> 300,
                          attachedDeposit |-> 1])

\* Contract.sign(request: SignRequest) up to signAndSendTransaction
Contract_sign_object(req) ==
    IF ~SignRequestValid(req)
    THEN Throw("validation", ZodError)
    ELSE LET signatureType == SignatureTypeOrDefault(req.signatureType)
             finalDomainId == IF IsUndefined(req.domainId)
                              THEN (IF signatureType = "ecdsa" THEN Num(0) ELSE Num(1))
                              ELSE req.domainId
             messageOk == IF signatureType = "ecdsa"
                          THEN ECDSAHashSchema(req.message)
                          ELSE EDDSAMessageSchema(req.message)
         IN  IF ~messageOk
             THEN Throw("validation", ZodError)
             ELSE Submit([via |-> "signAndSendTransaction",
                          methodName |-> "sign",
                          args |-> [request |->
                                      [domain_id |-> finalDomainId,
                                       path |-> req.path,
                                       payload_v2 |-> IF signatureType = "ecdsa"
                                                      THEN [Ecdsa |-> req.message]
                                                      ELSE [Eddsa |-> req.message]]],
                          gasTGas |-> 10,
                          attachedDeposit |-> 1])

Variants == {"args", "built", "positional", "object"}

SignBegin(variant, req) ==
    CASE variant = "args" -> Contract_sign_args(CallerArgs(req))
      [] variant = "built" -> Contract_sign_built(req)
      [] variant = "positional" -> Contract_sign_positional(req)
      [] variant = "object" -> Contract_sign_object(req)


-----------------------------------------------------------------------------
(* Contract.sign: the part that runs once the transport has answered *)

Signature(sig) == [kind |-> "signature", sig |-> sig]
Failure(stage, msg) == [kind |-> "error", stage |-> stage, message |-> msg]

NoSuccessValue == "No success value in transaction result"
FailedToParse == "Failed to parse MPC signature response"
\* the messages of new secp256k1.Signature for r and for s outside 1 <= n < CURVE.n,
\* the bounds and the number they quote left out
ExpectedValidR == "expected valid r"
ExpectedValidS == "expected valid s"
UnsupportedScheme == "Unsupported signature scheme"
\* the messages of the catch block, the domain id they quote left out
EddsaRejected ==
    "EDDSA payload rejected for domain_id. This domain may only support ECDSA signatures. Try domain_id 1 for EDDSA."
EcdsaRejected ==
    "ECDSA payload rejected for domain_id. This domain may only support EDDSA signatures. Try domain_id 0 for ECDSA."

\* String.prototype.includes: `needle` occurs in `msg` at some position
Includes(msg, needle) ==
    \E i \in 0..(Len(msg) - Len(needle)) :
        SubSeq(msg, i + 1, i + Len(needle)) = needle

\* errorMsg.includes("Payload is not Ecdsa")
IncludesNotEcdsa(msg) == Includes(msg, "Payload is not Ecdsa")
\* errorMsg.includes("Payload is not EdDSA")
IncludesNotEdDSA(msg) == Includes(msg, "Payload is not EdDSA")

\* what MPCSignatureResponseSchema.parse returns for a value it accepts: the keys
\* the schema names, every other key stripped (z.object)
MPCSignatureResponseParsed(v) ==
    IF v.scheme = "Secp256k1"
    THEN [scheme |-> v.scheme,
          big_r |-> [affine_point |-> v.big_r.affine_point],
          s |-> [scalar |-> v.s.scalar],
          recovery_id |-> v.recovery_id]
    ELSE [scheme |-> v.scheme, signature |-> v.signature]

\* the error of the catch block of parseSignatureResponse, which quotes the
\* message of the error it caught
ParseFailure(message) == Failure("response", FailedToParse \o ": " \o message)

\* a parse that answers a missing success value with a signature of zeros: not the code
parseSignatureResponse_fallback(result) ==
    IF result.status = "absent" \/ result.SuccessValue.t \in {"undefined", "empty"}
    THEN [kind |-> "parsed",
          value |-> [scheme |-> "Ed25519", signature |-> Rep(Num(0), 64)]]
    ELSE IF result.SuccessValue.t = "notJson"
    THEN ParseFailure(result.SuccessValue.message)
    ELSE IF ~MPCSignatureResponseSchema(result.SuccessValue.value)
    THEN ParseFailure(ZodError)
    ELSE [kind |-> "parsed",
          value |-> MPCSignatureResponseParsed(result.SuccessValue.value)]

\* parseSignatureResponse: the parsed response, or the error it throws.  A success
\* value that is no JSON carries the message JSON.parse raises for it, which may
\* quote the decoded text
parseSignatureResponse(result) ==
    IF result.status = "absent" \/ result.SuccessValue.t \in {"undefined", "empty"}
    THEN Failure("response", NoSuccessValue)
    ELSE IF result.SuccessValue.t = "notJson"
    THEN ParseFailure(result.SuccessValue.message)
    ELSE IF ~MPCSignatureResponseSchema(result.SuccessValue.value)
    THEN ParseFailure(ZodError)
    ELSE [kind |-> "parsed",
          value |-> MPCSignatureResponseParsed(result.SuccessValue.value)]

\* a conversion that reads the compression tag as part of r: not the code
convertMPCToECDSASignature_withTag(mpcResponse) ==
    LET rBytes == hexToBytes(mpcResponse.big_r.affine_point)
        sBytes == hexToBytes(mpcResponse.s.scalar)
        r == bytesToNumberBE_upTo(rBytes, CurveN)
        s == bytesToNumberBE_upTo(sBytes, CurveN)
    IN  IF r < 1 \/ r >= CurveN
        THEN Failure("response", ExpectedValidR)
        ELSE IF s < 1 \/ s >= CurveN
        THEN Failure("response", ExpectedValidS)
        ELSE Signature([scheme |-> "ecdsa", r |-> r, s |-> s,
                        recovery |-> mpcResponse.recovery_id])

\* convertMPCToECDSASignature; new secp256k1.Signature(r, s, recovery) validates
\* r, then s: each must be at least 1 and below the group order, or it throws
convertMPCToECDSASignature(mpcResponse) ==
    LET rBytes == hexToBytes(Slice(mpcResponse.big_r.affine_point, 2))
        sBytes == hexToBytes(mpcResponse.s.scalar)
        r == bytesToNumberBE_upTo(rBytes, CurveN)
        s == bytesToNumberBE_upTo(sBytes, CurveN)
    IN  IF r < 1 \/ r >= CurveN
        THEN Failure("response", ExpectedValidR)
        ELSE IF s < 1 \/ s >= CurveN
        THEN Failure("response", ExpectedValidS)
        ELSE Signature([scheme |-> "ecdsa", r |-> r, s |-> s,
                        recovery |-> mpcResponse.recovery_id])

\* the element of a Uint8Array made from a number (ToUint8): the number truncated
\* toward zero, modulo 256
ToUint8(v) == (IF v.int < 0 /\ v.frac > 0 THEN v.int + 1 ELSE v.int) % 256

\* a conversion that fills the array from its far end: not the code
convertMPCToEDDSASignature_reversed(mpcResponse) ==
    Signature([scheme |-> "eddsa",
               bytes |-> [i \in 1..Len(mpcResponse.signature) |->
                             ToUint8(mpcResponse.signature[
                                         Len(mpcResponse.signature) + 1 - i])]])

\* convertMPCToEDDSASignature: new Uint8Array(mpcResponse.signature)
convertMPCToEDDSASignature(mpcResponse) ==
    Signature([scheme |-> "eddsa",
               bytes |-> [i \in 1..Len(mpcResponse.signature) |->
                             ToUint8(mpcResponse.signature[i])]])

\* the statements of sign after the awaited call returned `result`
SignConvert(result) ==
    LET mpcResponse == parseSignatureResponse(result)
    IN  IF mpcResponse.kind = "error"
        THEN mpcResponse
        ELSE IF mpcResponse.value.scheme = "Secp256k1"
        THEN convertMPCToECDSASignature(mpcResponse.value)
        ELSE IF mpcResponse.value.scheme = "Ed25519"
        THEN convertMPCToEDDSASignature(mpcResponse.value)
        ELSE Failure("response", UnsupportedScheme)

\* contract.ts, the catch block of Contract.sign
SignCatch(failure) ==
    IF IncludesNotEcdsa(failure.message)
    THEN Failure(failure.stage, EddsaRejected)
    ELSE IF IncludesNotEdDSA(failure.message)
    THEN Failure(failure.stage, EcdsaRejected)
    ELSE failure

\* what sign settles with: `answer` is what the awaited transport call did
SignEnd(variant, answer) ==
    LET raw == IF answer.kind = "throws"
               THEN Failure("transport", answer.message)
               ELSE SignConvert(answer.result)
    IN  IF variant \in {"args", "built"} /\ raw.kind = "error"
        THEN SignCatch(raw)
        ELSE raw

-----------------------------------------------------------------------------
(* The inputs the model draws *)

Paths == { <<>>, <<" ", "\t">>, <<"\r", " ">>, <<"e", "-", "1">>, <<" ", "x", " ">> }

MsgLens == {0, 62, 2462, 2464}
MsgTails == { <<>>, <<"F">>, <<"F", "7">>, <<"g", "g">> }
Messages == { Rep("a", n) \o t : n \in MsgLens, t \in MsgTails }

DomainIds == { Undefined, Num(0), Num(5), Num(-1), NumFrac(1, 5) }

Requests ==
    [path : Paths, message : Messages, signatureType : {"ecdsa", "eddsa", "undefined"},
     domainId : DomainIds]

\* r is 10, 30 (the order less one), 31 (the order), 2^40 - 1, 0 (twice), and
\* two strings the schema refuses
AffinePoints ==
    { <<"0", "2", "0", "a">>, <<"0", "3", "0", "0", "1", "E">>, <<"0", "2", "1", "f">>,
      <<"0", "2">> \o Rep("f", 10), <<"0", "2">>, <<"0", "2", "0", "0">>,
      <<"2", "a", "b">>, <<"0", "2", "z", "z">> }
\* s is 7, 30, 31, 0, and a string the schema refuses
Scalars ==
    { <<"0", "7">>, <<"0", "0", "1", "e">>, <<"1", "F">>, <<"0", "0">>, <<"z", "z">> }
RecoveryIds == { Num(0), Num(1), Num(3), Num(4), Num(-1), NumFrac(1, 5) }

EcdsaResponses ==
    { [scheme |-> "Secp256k1", big_r |-> [affine_point |-> a],
       s |-> [scalar |-> sc], recovery_id |-> rid] :
         a \in AffinePoints, sc \in Scalars, rid \in RecoveryIds }

EddsaSignatures ==
    { Rep(Num(7), 64), [i \in 1..64 |-> Num(i - 1)], [i \in 1..64 |-> Num(256 - i)],
      Rep(Num(7), 63), Rep(Num(7), 65),
      [i \in 1..64 |-> IF i = 64 THEN Num(256) ELSE Num(0)],
      [i \in 1..64 |-> IF i = 1 THEN Num(-1) ELSE Num(0)],
      [i \in 1..64 |-> IF i = 2 THEN NumFrac(1, 5) ELSE Num(0)],
      [i \in 1..64 |-> IF i = 3 THEN NumFrac(-1, 5) ELSE Num(0)] }

EddsaResponses ==
    { [scheme |-> "Ed25519", signature |-> sg] : sg \in EddsaSignatures }

\* valid responses that carry a key their schema does not name
ExtraKeyResponses ==
    { [scheme |-> "Ed25519", signature |-> Rep(Num(9), 64), recovery_id |-> Num(0)],
      [scheme |-> "Secp256k1", big_r |-> [affine_point |-> <<"0", "2", "0", "a">>],
       s |-> [scalar |-> <<"0", "7">>], recovery_id |-> Num(0),
       signature |-> Rep(Num(1), 64)] }

OtherResponses ==
    { [scheme |-> "Bls12381"], [scheme |-> "Secp256k1"], [scheme |-> "Ed25519"] }

JsonValues ==
    EcdsaResponses \cup EddsaResponses \cup ExtraKeyResponses \cup OtherResponses

Results ==
    { [status |-> "absent", SuccessValue |-> [t |-> "undefined"]],
      [status |-> "present", SuccessValue |-> [t |-> "undefined"]],
      [status |-> "present", SuccessValue |-> [t |-> "empty"]],
      [status |-> "present",
       SuccessValue |-> [t |-> "notJson", message |-> "Unexpected end of JSON input"]],
      [status |-> "present",
       SuccessValue |-> [t |-> "notJson",
                         message |-> "Unexpected token 'P', \"Payload is not Ecdsa\" is not valid JSON"]] }
    \cup { [status |-> "present", SuccessValue |-> [t |-> "json", value |-> v]] :
              v \in JsonValues }

TransportErrors ==
    { "Exceeded the prepaid gas",
      "Smart contract panicked: Payload is not Ecdsa",
      "Payload is not EdDSA",
      "payload is not ecdsa" }

Answers ==
    { [kind |-> "throws", message |-> m] : m \in TransportErrors }
    \cup { [kind |-> "returns", result |-> r] : r \in Results }

-----------------------------------------------------------------------------
(* A sign call as a state machine *)

NoRequest == [path |-> <<>>, message |-> <<>>, signatureType |-> "none",
              domainId |-> Undefined]
NoAnswer == [kind |-> "none"]
NoOutcome == [kind |-> "none"]

IdleCall ==
    [pc |-> "idle", variant |-> "none", req |-> NoRequest, sent |-> <<>>,
     answer |-> NoAnswer, outcome |-> NoOutcome]

SignInit == call = IdleCall

\* a caller invokes sign: validation, and the submission when validation passes
Sign(variant, req) ==
    /\ call.pc = "idle"
    /\ LET begin == SignBegin(variant, req)
       IN  call' =
              IF begin.kind = "throw"
              THEN [pc |-> "done", variant |-> variant, req |-> req, sent |-> <<>>,
                    answer |-> NoAnswer,
                    outcome |-> Failure(begin.stage, begin.message)]
              ELSE [pc |-> "awaiting", variant |-> variant, req |-> req,
                    sent |-> <<begin.call>>, answer |-> NoAnswer,
                    outcome |-> NoOutcome]

\* a sign that submits its call again when the transport threw: not the code
Resubmitted_onThrow(variant, sent, answer) ==
    IF answer.kind = "throws" THEN sent ELSE <<>>

\* what sign submits once the awaited call settled: the call of the transport
\* stands in no loop and no statement after it calls the transport again
Resubmitted(variant, sent, answer) ==
    <<>>

\* the awaited transport call settles and sign runs to its end
Settle(answer) ==
    /\ call.pc = "awaiting"
    /\ call' = [call EXCEPT !.pc = "done", !.answer = answer,
                            !.sent = call.sent \o
                                     Resubmitted(call.variant, call.sent, answer),
                            !.outcome = SignEnd(call.variant, answer)]

\* the caller drops a settled call
Forget ==
    /\ call.pc = "done"
    /\ call' = IdleCall

\* one sign call at a time, every request and every answer
\* the signature type can be left out where sign takes one: the wire arguments
\* and the builders always name the scheme
Callable(variant, req) ==
    variant \in {"positional", "object"} \/ req.signatureType # "undefined"

SignNext ==
    \/ /\ call.pc = "idle"
       /\ \E variant \in Variants, req \in Requests :
             Callable(variant, req) /\ Sign(variant, req)
       /\ UNCHANGED <<keyVars, concVars, wireVars, treeVars, probeVars, heapVars>>
    \/ /\ call.pc = "awaiting"
       /\ \E answer \in Answers : Settle(answer)
       /\ UNCHANGED <<keyVars, concVars, wireVars, treeVars, probeVars, heapVars>>
    \/ Forget /\ UNCHANGED <<keyVars, concVars, wireVars, treeVars, probeVars, heapVars>>


-----------------------------------------------------------------------------
(* The curve: y^2 = x^3 + 7 over a prime field, as secp256k1, with a small  *)
(* field prime CurveP and a prime group order CurveN < CurveP               *)

\* a function as an explicit table of its values, each computed once
Table(f) == f @@ <<>>

ZERO == [inf |-> TRUE, x |-> 0, y |-> 0]
Affine(x, y) == [inf |-> FALSE, x |-> x, y |-> y]
\* secp256k1.Point.BASE
BASE == Affine(2, 12)

\* Fp.create: reduction modulo the field prime
Fp_create(a) == a % CurveP
\* mod(a, b) of @noble/curves/abstract/modular
mod(a, b) == a % b

\* the inverse of every non-zero element of the field
Inverses ==
    Table([a \in 1..(CurveP - 1) |->
               CHOOSE b \in 1..(CurveP - 1) : (a * b) % CurveP = 1])

\* Fp.inv
FpInv(a) == Inverses[a]

\* a point assertValidity accepts: not the point at infinity, and y^2 = x^3 + 7
OnCurve(P) == ~P.inf /\ (P.y * P.y) % CurveP = (P.x * P.x * P.x + 7) % CurveP

\* Point.add: the group law
PointAdd(P, Q) ==
    IF P.inf THEN Q
    ELSE IF Q.inf THEN P
    ELSE IF P.x = Q.x /\ (P.y + Q.y) % CurveP = 0 THEN ZERO
    ELSE LET lam == IF P.x = Q.x
                    THEN (3 * P.x * P.x * FpInv((2 * P.y) % CurveP)) % CurveP
                    ELSE ((Q.y - P.y) * FpInv((Q.x - P.x) % CurveP)) % CurveP
             x3 == (lam * lam - P.x - Q.x) % CurveP
             y3 == (lam * (P.x - x3) - P.y) % CurveP
         IN  Affine(x3, y3)

\* k * G for k = 1 .. CurveN, by repeated addition of G
BaseMultiples ==
    LET multiple[k \in 1..CurveN] ==
            IF k = 1 THEN BASE ELSE PointAdd(multiple[k - 1], BASE)
    IN  Table([k \in 1..CurveN |-> multiple[k]])

\* the group element s * G of a scalar s
TimesG(s) == IF s % CurveN = 0 THEN ZERO ELSE BaseMultiples[s % CurveN]

\* Point.BASE.multiply(scalar): scalars from 1 up to the group order only
BASE_multiply(scalar) ==
    IF scalar >= 1 /\ scalar < CurveN
    THEN Ok(BaseMultiples[scalar])
    ELSE Err("invalid scalar: out of range")

-----------------------------------------------------------------------------
(* The tweak *)

Alphabet ==
    << "a", "b", "c", "d", "e", "f", "g", "h", "i", "j", "k", "l", "m", "n",
       "o", "p", "q", "r", "s", "t", "u", "v", "w", "x", "y", "z", "0", "1",
       "2", "3", "4", "5", "6", "7", "8", "9", " ", "-", ".", ":", ",", "/" >>

\* the code of every character of the alphabet
CharCodes ==
    Table([c \in {Alphabet[i] : i \in 1..Len(Alphabet)} |->
               CHOOSE i \in 1..Len(Alphabet) : Alphabet[i] = c])

\* String.charCodeAt, over the alphabet
CharCode(c) == CharCodes[c]

TWEAK_DERIVATION_PREFIX ==
    << "n", "e", "a", "r", "-", "m", "p", "c", "-", "r", "e", "c", "o", "v",
       "e", "r", "y", " ", "v", "0", ".", "1", ".", "0", " ", "e", "p", "s",
       "i", "l", "o", "n", " ", "d", "e", "r", "i", "v", "a", "t", "i", "o",
       "n", ":" >>
ACCOUNT_DATA_SEPARATOR == <<",">>

\* sha3_256 of the text, read as a big-endian integer: a digest of HashBits
\* bits, absorbing the text one character at a time
sha3_256(text) ==
    LET absorb[k \in 0..Len(text)] ==
            IF k = 0
            THEN 0
            ELSE (33 * absorb[k - 1] + CharCode(text[k])) % (2 ^ HashBits)
    IN  absorb[Len(text)]

derivationPath(predecessorId, path) ==
    TWEAK_DERIVATION_PREFIX \o predecessorId \o ACCOUNT_DATA_SEPARATOR \o path

\* the accounts and paths keys are derived for
Accounts == { <<"a">>, <<"a", ",", "b">> }
DerivePaths == { <<"b">>, <<"b", ",", "c">>, <<"c">>, <<"e", "-", "1">> }

\* the digest of every derivation string the model uses
Digests ==
    Table([ap \in Accounts \X DerivePaths |->
               sha3_256(derivationPath(ap[1], ap[2]))])

\* epsilon = secp256k1.CURVE.Fp.create(bytesToNumberBE(hash))
Epsilon(predecessorId, path) ==
    LET hash == IF <<predecessorId, path>> \in DOMAIN Digests
                THEN Digests[<<predecessorId, path>>]
                ELSE sha3_256(derivationPath(predecessorId, path))
    IN  Fp_create(hash)


-----------------------------------------------------------------------------
(* The key classes.  A key with a secret is [publicKey, hasSecret, secretKey]; *)
(* a call that can throw yields Ok(value) or Err(message).                    *)

PublicOnly(point) == [publicKey |-> point, hasSecret |-> FALSE, secretKey |-> 0]
WithSecret(point, scalar) == [publicKey |-> point, hasSecret |-> TRUE, secretKey |-> scalar]

\* secp256k1.utils.normPrivateKeyToScalar: a private key is in 1 .. n-1
normPrivateKeyToScalar(key) ==
    IF key >= 1 /\ key < CurveN THEN Ok(key) ELSE Err("invalid private key")

\* OmniKey.fromSecretKey of the first OmniKey class
OmniKeyV1_fromSecretKey(secretKeyScalar) ==
    IF secretKeyScalar >= CurveN
    THEN Err("Secret key scalar must be less than curve order")
    ELSE LET publicKey == BASE_multiply(secretKeyScalar)
         IN  IF ~publicKey.ok
             THEN publicKey
             ELSE Ok(WithSecret(publicKey.v, secretKeyScalar))

\* OmniKey.fromSecret
OmniKey_fromSecret(secretKey) ==
    LET secretKeyScalar == normPrivateKeyToScalar(secretKey)
    IN  IF ~secretKeyScalar.ok
        THEN secretKeyScalar
        ELSE LET publicKey == BASE_multiply(secretKeyScalar.v)
             IN  IF ~publicKey.ok
                 THEN publicKey
                 ELSE Ok(WithSecret(publicKey.v, secretKeyScalar.v))

\* OmniKey.fromPoint
OmniKey_fromPoint(publicKey) == PublicOnly(publicKey)

\* MPCKey.fromPoint
MPCKey_fromPoint(publicKey) == PublicOnly(publicKey)

\* MockMPCKey.fromSecret
MockMPCKey_fromSecret(secretKey) ==
    LET secretKeyScalar == normPrivateKeyToScalar(secretKey)
    IN  IF ~secretKeyScalar.ok
        THEN secretKeyScalar
        ELSE LET publicKey == BASE_multiply(secretKeyScalar.v)
             IN  IF ~publicKey.ok
                 THEN publicKey
                 ELSE Ok(WithSecret(publicKey.v, secretKeyScalar.v))

\* OmniSecretKey.fromBytes: any scalar below the group order
OmniSecretKey_fromBytes(scalar) ==
    IF scalar >= CurveN
    THEN Err("Secret key scalar must be less than curve order")
    ELSE Ok(scalar)

\* a % b of JavaScript for b > 0: the remainder has the sign of the dividend
Remainder(a, b) == IF a >= 0 THEN a % b ELSE 0 - ((0 - a) % b)

\* OmniKey.derive of the first OmniKey class: the remainder operator
OmniKeyV1_derive(key, predecessorId, path) ==
    LET epsilon == Epsilon(predecessorId, path)
        epsilonPoint == BASE_multiply(epsilon)
    IN  IF ~epsilonPoint.ok
        THEN epsilonPoint
        ELSE LET childPublicKey == PointAdd(key.publicKey, epsilonPoint.v)
             IN  IF key.hasSecret
                 THEN Ok(WithSecret(childPublicKey,
                                    Remainder(epsilon + key.secretKey, CurveN)))
                 ELSE Ok(PublicOnly(childPublicKey))

\* a derive that reduces the child secret modulo the field prime: not the code
OmniKey_derive_modP(key, predecessorId, path) ==
    LET epsilon == Epsilon(predecessorId, path)
        epsilonPoint == BASE_multiply(epsilon)
    IN  IF ~epsilonPoint.ok
        THEN epsilonPoint
        ELSE LET childPublicKey == PointAdd(key.publicKey, epsilonPoint.v)
             IN  IF key.hasSecret
                 THEN Ok(WithSecret(childPublicKey, Fp_create(epsilon + key.secretKey)))
                 ELSE Ok(PublicOnly(childPublicKey))

\* a derive that drops the two low bits of the tweak: not the code
OmniKey_derive_coarse(key, predecessorId, path) ==
    LET epsilon == (Epsilon(predecessorId, path) \div 4) + 1
        epsilonPoint == BASE_multiply(epsilon)
    IN  IF ~epsilonPoint.ok
        THEN epsilonPoint
        ELSE LET childPublicKey == PointAdd(key.publicKey, epsilonPoint.v)
             IN  IF key.hasSecret
                 THEN Ok(WithSecret(childPublicKey, mod(epsilon + key.secretKey, CurveN)))
                 ELSE Ok(PublicOnly(childPublicKey))

\* a derive that hands the child no secret: not the code
OmniKey_derive_publicOnly(key, predecessorId, path) ==
    LET epsilon == Epsilon(predecessorId, path)
        epsilonPoint == BASE_multiply(epsilon)
    IN  IF ~epsilonPoint.ok
        THEN epsilonPoint
        ELSE Ok(PublicOnly(PointAdd(key.publicKey, epsilonPoint.v)))

\* a derive that doubles the parent before it adds the tweak: not the code
OmniKey_derive_doubling(key, predecessorId, path) ==
    LET epsilon == Epsilon(predecessorId, path)
        epsilonPoint == BASE_multiply(epsilon)
    IN  IF ~epsilonPoint.ok
        THEN epsilonPoint
        ELSE LET childPublicKey ==
                     PointAdd(PointAdd(key.publicKey, key.publicKey), epsilonPoint.v)
             IN  IF key.hasSecret
                 THEN Ok(WithSecret(childPublicKey,
                                    mod(epsilon + 2 * key.secretKey, CurveN)))
                 ELSE Ok(PublicOnly(childPublicKey))

\* OmniKey.derive
OmniKey_derive(key, predecessorId, path) ==
    LET epsilon == Epsilon(predecessorId, path)
        epsilonPoint == BASE_multiply(epsilon)
    IN  IF ~epsilonPoint.ok
        THEN epsilonPoint
        ELSE LET childPublicKey == PointAdd(key.publicKey, epsilonPoint.v)
             IN  IF key.hasSecret
                 THEN Ok(WithSecret(childPublicKey, mod(epsilon + key.secretKey, CurveN)))
                 ELSE Ok(PublicOnly(childPublicKey))

\* MPCKey.derive
MPCKey_derive(key, predecessorId, path) ==
    LET epsilon == Epsilon(predecessorId, path)
        epsilonPoint == BASE_multiply(epsilon)
    IN  IF ~epsilonPoint.ok
        THEN epsilonPoint
        ELSE Ok(PublicOnly(PointAdd(key.publicKey, epsilonPoint.v)))

\* MockMPCKey.derive
MockMPCKey_derive(key, predecessorId, path) ==
    LET epsilon == Epsilon(predecessorId, path)
        epsilonPoint == BASE_multiply(epsilon)
    IN  IF ~epsilonPoint.ok
        THEN epsilonPoint
        ELSE Ok(WithSecret(PointAdd(key.publicKey, epsilonPoint.v),
                           mod(epsilon + key.secretKey, CurveN)))

\* OmniPublicKey.derive
OmniPublicKey_derive(point, predecessorId, path) ==
    LET tweak == Epsilon(predecessorId, path)
        tweakPoint == BASE_multiply(tweak)
    IN  IF ~tweakPoint.ok
        THEN tweakPoint
        ELSE Ok(PointAdd(point, tweakPoint.v))

\* OmniSecretKey.derive
OmniSecretKey_derive(scalar, predecessorId, path) ==
    LET epsilon == Epsilon(predecessorId, path)
    IN  Fp_create(epsilon + scalar)

\* OmniSecretKey.publicKey
OmniSecretKey_publicKey(scalar) == BASE_multiply(scalar)

-----------------------------------------------------------------------------
(* Keys as a state machine: every class is built from one secret and then   *)
(* derived along one chain of (account, path) pairs                          *)

Secrets == 1..(CurveN - 1)

NoKey == [publicKey |-> ZERO, hasSecret |-> FALSE, secretKey |-> 0]
NoCall == [set |-> FALSE]

KeyInit ==
    /\ omniV1 = NoKey
    /\ omni = NoKey
    /\ omniPub = NoKey
    /\ mpc = NoKey
    /\ mock = NoKey
    /\ osk = 0
    /\ opk = Err("no key")
    /\ threw = {}
    /\ depth = -1
    /\ first = NoCall

\* the keys of every class for the secret s
Construct(s) ==
    /\ depth = -1
    /\ omniV1' = OmniKeyV1_fromSecretKey(s).v
    /\ omni' = OmniKey_fromSecret(s).v
    /\ omniPub' = OmniKey_fromPoint(BASE_multiply(s).v)
    /\ mpc' = MPCKey_fromPoint(BASE_multiply(s).v)
    /\ mock' = MockMPCKey_fromSecret(s).v
    /\ osk' = OmniSecretKey_fromBytes(s).v
    /\ opk' = OmniSecretKey_publicKey(s)
    /\ threw' = {}
    /\ depth' = 0
    /\ UNCHANGED first

\* the key a variable holds after a derive call: the child, or the parent when it threw
After(key, result) == IF result.ok THEN result.v ELSE key

\* derive(predecessorId, path) on the current key of every class
Derive(predecessorId, path) ==
    /\ depth >= 0
    /\ depth < MaxDerive
    /\ LET rOmniV1 == OmniKeyV1_derive(omniV1, predecessorId, path)
           rOmni == OmniKey_derive(omni, predecessorId, path)
           rOmniPub == OmniKey_derive(omniPub, predecessorId, path)
           rMpc == MPCKey_derive(mpc, predecessorId, path)
           rMock == MockMPCKey_derive(mock, predecessorId, path)
           parentPublic == OmniSecretKey_publicKey(osk)
       IN  /\ omniV1' = After(omniV1, rOmniV1)
           /\ omni' = After(omni, rOmni)
           /\ omniPub' = After(omniPub, rOmniPub)
           /\ mpc' = After(mpc, rMpc)
           /\ mock' = After(mock, rMock)
           /\ osk' = OmniSecretKey_derive(osk, predecessorId, path)
           /\ opk' = IF parentPublic.ok
                     THEN OmniPublicKey_derive(parentPublic.v, predecessorId, path)
                     ELSE Err("the parent has no public key")
           /\ threw' = {c \in {"omni", "omniPub", "mpc", "mock"} :
                           ~(CASE c = "omni" -> rOmni
                               [] c = "omniPub" -> rOmniPub
                               [] c = "mpc" -> rMpc
                               [] c = "mock" -> rMock).ok}
           /\ first' = IF first.set
                       THEN first
                       ELSE [set |-> TRUE, parent |-> omni, parentPub |-> omniPub,
                             predecessorId |-> predecessorId, path |-> path,
                             child |-> rOmni, childPub |-> rOmniPub]
    /\ depth' = depth + 1

KeyNext ==
    \/ \E s \in Secrets : Construct(s) /\ UNCHANGED <<signVars, concVars, wireVars, treeVars, probeVars, heapVars>>
    \/ \E a \in Accounts, p \in DerivePaths : Derive(a, p) /\ UNCHANGED <<signVars, concVars, wireVars, treeVars, probeVars, heapVars>>

-----------------------------------------------------------------------------
(* Specifications *)

-----------------------------------------------------------------------------
(* The wire format of a public key and the reads of the secret *)

\* bytes of one coordinate; secp256k1 has 32, and the model keeps the three
\* encodings of a point (2w, 1 + w and 1 + 2w bytes) of different lengths
CoordBytes == 2
SECP256K1_PUBLIC_KEY_BYTES == 2 * CoordBytes
SECP256K1_PREFIX == <<"s", "e", "c", "p", "2", "5", "6", "k", "1", ":">>

\* String.prototype.startsWith
StartsWith(s, prefix) ==
    Len(s) >= Len(prefix) /\ SubSeq(s, 1, Len(prefix)) = prefix

\* the alphabet of base58 of @scure/base
Base58Alphabet ==
    <<"1", "2", "3", "4", "5", "6", "7", "8", "9",
      "A", "B", "C", "D", "E", "F", "G", "H", "J", "K", "L", "M", "N", "P", "Q",
      "R", "S", "T", "U", "V", "W", "X", "Y", "Z",
      "a", "b", "c", "d", "e", "f", "g", "h", "i", "j", "k", "m", "n", "o", "p",
      "q", "r", "s", "t", "u", "v", "w", "x", "y", "z">>
Base58Chars == { Base58Alphabet[i] : i \in 1..Len(Base58Alphabet) }
Base58Digit(c) == (CHOOSE i \in 1..Len(Base58Alphabet) : Base58Alphabet[i] = c) - 1

\* the number a sequence of digits stands for, most significant digit first
RECURSIVE ValueOf(_, _)
ValueOf(digits, base) ==
    IF digits = <<>>
    THEN 0
    ELSE base * ValueOf(SubSeq(digits, 1, Len(digits) - 1), base) + digits[Len(digits)]

\* the digits of a number, most significant first, one digit for zero
RECURSIVE DigitsOf(_, _)
DigitsOf(n, base) ==
    IF n < base THEN <<n>> ELSE Append(DigitsOf(n \div base, base), n % base)

\* the zeros that stand before the first non-zero digit, the last digit left out
RECURSIVE LeadingZeros(_)
LeadingZeros(data) ==
    IF Len(data) <= 1 \/ data[1] # 0 THEN 0 ELSE 1 + LeadingZeros(Tail(data))

\* convertRadix of @scure/base: the digits of the same number in another base,
\* every leading zero kept as a zero
convertRadix(data, from, to) ==
    IF data = <<>>
    THEN <<>>
    ELSE Rep(0, LeadingZeros(data)) \o DigitsOf(ValueOf(data, from), to)

\* base58.encode
base58_encode(bytes) ==
    LET digits == convertRadix(bytes, 256, 58)
    IN  [i \in 1..Len(digits) |-> Base58Alphabet[digits[i] + 1]]

\* base58.decode: throws on a letter outside the alphabet
base58_decode(str) ==
    IF \E i \in 1..Len(str) : str[i] \notin Base58Chars
    THEN Err("Unknown letter")
    ELSE Ok(convertRadix([i \in 1..Len(str) |-> Base58Digit(str[i])], 58, 256))

\* the messages of hexToBytes, the length and the character they quote left out
UnpaddedHex == "hex string expected, got unpadded hex"
NonHexCharacter == "hex string expected, got non-hex character"

\* the length of n.toString(16): the hex digits of |n|, and the sign of a negative n
RECURSIVE HexDigitCount(_)
HexDigitCount(n) == IF n < 16 THEN 1 ELSE 1 + HexDigitCount(n \div 16)
ToString16Length(n) == IF n < 0 THEN 1 + HexDigitCount(0 - n) ELSE HexDigitCount(n)

\* numberToBytesBE(n, len): hexToBytes(n.toString(16).padStart(len * 2, "0")).  The
\* padding never cuts: a number of more than len bytes gives more bytes, or throws
\* on an odd number of digits; a negative number throws
numberToBytesBE(n, len) ==
    LET length == IF ToString16Length(n) < 2 * len THEN 2 * len ELSE ToString16Length(n)
        count == length \div 2
    IN  IF length % 2 = 1
        THEN Err(UnpaddedHex)
        ELSE IF n < 0
        THEN Err(NonHexCharacter)
        ELSE Ok([i \in 1..count |-> (n \div (256 ^ (count - i))) % 256])

\* bytesToHex: two lower-case digits per byte
bytesToHex(bytes) ==
    LET digit == <<"0", "1", "2", "3", "4", "5", "6", "7",
                   "8", "9", "a", "b", "c", "d", "e", "f">>
    IN  [i \in 1..(2 * Len(bytes)) |->
            IF i % 2 = 1
            THEN digit[(bytes[(i + 1) \div 2] \div 16) + 1]
            ELSE digit[(bytes[i \div 2] % 16) + 1]]

\* Point.assertValidity: refuses the point at infinity, then a point that does
\* not satisfy the equation of the curve
Point_assertValidity(P) ==
    IF P.inf
    THEN Err("bad point: ZERO")
    ELSE IF ~OnCurve(P)
    THEN Err("bad point: equation left != right")
    ELSE Ok(P)

\* Point.toBytes(isCompressed): assertValidity, then the tag and the coordinates
Point_toBytes(P, isCompressed) ==
    LET valid == Point_assertValidity(P)
        x == numberToBytesBE(P.x, CoordBytes)
        y == numberToBytesBE(P.y, CoordBytes)
    IN  IF ~valid.ok
        THEN valid
        ELSE IF ~x.ok
        THEN x
        ELSE IF isCompressed
        THEN Ok(<<2 + (P.y % 2)>> \o x.v)
        ELSE IF ~y.ok
        THEN y
        ELSE Ok(<<4>> \o x.v \o y.v)

\* Point.fromBytes: a compressed or an uncompressed encoding of a point of the curve
Point_fromBytes(bytes) ==
    IF Len(bytes) = 1 + CoordBytes /\ bytes[1] \in {2, 3}
    THEN LET x == bytesToNumberBE(Slice(bytes, 1))
             roots == { y \in 0..(CurveP - 1) : OnCurve(Affine(x, y)) }
         IN  IF x >= CurveP \/ roots = {}
             THEN Err("bad point: is not on curve")
             ELSE Ok(Affine(x, CHOOSE y \in roots : y % 2 = bytes[1] % 2))
    ELSE IF Len(bytes) = 1 + 2 * CoordBytes /\ bytes[1] = 4
    THEN LET x == bytesToNumberBE(SubSeq(bytes, 2, 1 + CoordBytes))
             y == bytesToNumberBE(Slice(bytes, 1 + CoordBytes))
         IN  IF x >= CurveP \/ y >= CurveP \/ ~OnCurve(Affine(x, y))
             THEN Err("bad point: is not on curve")
             ELSE Ok(Affine(x, y))
    ELSE Err("invalid Point: bad length or header")

MustStartWithPrefix == "Must start with 'secp256k1:'"
\* the source appends ", got <length>" to this text
PublicKeyLength == "Public key must be exactly 64 bytes"

\* a fromNEAR that hands bytes of any length to Point.fromBytes: not the code
OmniKey_fromNEAR_anyLength(nearPublicKey) ==
    IF ~StartsWith(nearPublicKey, SECP256K1_PREFIX)
    THEN Err(MustStartWithPrefix)
    ELSE LET decoded == base58_decode(Slice(nearPublicKey, Len(SECP256K1_PREFIX)))
         IN  IF ~decoded.ok
             THEN decoded
             ELSE LET publicKey == Point_fromBytes(<<4>> \o decoded.v)
                  IN  IF ~publicKey.ok THEN publicKey ELSE Ok(PublicOnly(publicKey.v))

\* OmniKey.fromNEAR
OmniKey_fromNEAR(nearPublicKey) ==
    IF ~StartsWith(nearPublicKey, SECP256K1_PREFIX)
    THEN Err(MustStartWithPrefix)
    ELSE LET base58Part == Slice(nearPublicKey, Len(SECP256K1_PREFIX))
             decoded == base58_decode(base58Part)
         IN  IF ~decoded.ok
             THEN decoded
             ELSE IF Len(decoded.v) # SECP256K1_PUBLIC_KEY_BYTES
             THEN Err(PublicKeyLength)
             ELSE LET publicKey == Point_fromBytes(<<4>> \o decoded.v)
                  IN  IF ~publicKey.ok THEN publicKey ELSE Ok(PublicOnly(publicKey.v))

\* MPCKey.fromNEAR
MPCKey_fromNEAR(nearPublicKey) ==
    IF ~StartsWith(nearPublicKey, SECP256K1_PREFIX)
    THEN Err(MustStartWithPrefix)
    ELSE LET base58Part == Slice(nearPublicKey, Len(SECP256K1_PREFIX))
             decoded == base58_decode(base58Part)
         IN  IF ~decoded.ok
             THEN decoded
             ELSE IF Len(decoded.v) # SECP256K1_PUBLIC_KEY_BYTES
             THEN Err(PublicKeyLength)
             ELSE LET publicKey == Point_fromBytes(<<4>> \o decoded.v)
                  IN  IF ~publicKey.ok THEN publicKey ELSE Ok(PublicOnly(publicKey.v))

\* OmniKey.fromBytes; MPCKey.fromBytes has the same statements
OmniKey_fromBytes(bytes) ==
    LET publicKey == IF Len(bytes) = SECP256K1_PUBLIC_KEY_BYTES
                     THEN Point_fromBytes(<<4>> \o bytes)
                     ELSE Point_fromBytes(bytes)
    IN  IF ~publicKey.ok THEN publicKey ELSE Ok(PublicOnly(publicKey.v))

\* get near of OmniKey; MPCKey has the same getter
OmniKey_near(key) ==
    LET uncompressed == Point_toBytes(key.publicKey, FALSE)
    IN  IF ~uncompressed.ok
        THEN uncompressed
        ELSE Ok(SECP256K1_PREFIX \o base58_encode(Slice(uncompressed.v, 1)))

NoSecretKey == "No secret key available - key was created from public key only"

\* a canSign that answers true for every key: not the code
OmniKey_canSign_always(key) == TRUE

\* OmniKey.canSign
OmniKey_canSign(key) == key.hasSecret

\* get secretKey
OmniKey_secretKey(key) ==
    IF ~key.hasSecret THEN Err(NoSecretKey) ELSE Ok(key.secretKey)

\* get secretBytes
OmniKey_secretBytes(key) ==
    LET secretKey == OmniKey_secretKey(key)
    IN  IF ~secretKey.ok THEN secretKey ELSE numberToBytesBE(secretKey.v, CoordBytes)

\* get secretHex
OmniKey_secretHex(key) ==
    LET secretKey == OmniKey_secretKey(key)
        secretBytes == numberToBytesBE(secretKey.v, CoordBytes)
    IN  IF ~secretKey.ok
        THEN secretKey
        ELSE IF ~secretBytes.ok
        THEN secretBytes
        ELSE Ok(bytesToHex(secretBytes.v))

-----------------------------------------------------------------------------
(* One key: built, derived, written to the wire format, read *)

KeyClasses == {"OmniKey", "MPCKey"}

\* the wire string of the point k * G
WireOf(k) == OmniKey_near(PublicOnly(BaseMultiples[k])).v

\* strings handed to fromNEAR: the wire string of every point of the group, and
\* strings with no prefix, another prefix, a letter outside base58, no bytes,
\* too few or too many bytes, and bytes that are no point of the curve
Wires ==
    { WireOf(k) : k \in Secrets }
    \cup { <<>>,
           Slice(WireOf(1), Len(SECP256K1_PREFIX)),
           <<"e", "d", "2", "5", "5", "1", "9", ":">>
               \o Slice(WireOf(1), Len(SECP256K1_PREFIX)),
           <<"S", "E", "C", "P", "2", "5", "6", "K", "1", ":">>
               \o Slice(WireOf(1), Len(SECP256K1_PREFIX)),
           SECP256K1_PREFIX,
           SECP256K1_PREFIX \o <<"1">>,
           SECP256K1_PREFIX \o <<"1", "1", "1", "1">>,
           SECP256K1_PREFIX \o <<"1", "1", "1", "1", "1">>,
           SECP256K1_PREFIX \o <<"0", "O", "I", "l">>,
           SECP256K1_PREFIX \o <<"1", "1", "1", "1", "z">>,
           SECP256K1_PREFIX \o base58_encode(Point_toBytes(BASE, TRUE).v) }

\* byte arrays handed to fromBytes: the three encodings of some points, and
\* arrays that encode no point
KeyBytes ==
    UNION { { Slice(Point_toBytes(BaseMultiples[k], FALSE).v, 1),
              Point_toBytes(BaseMultiples[k], FALSE).v,
              Point_toBytes(BaseMultiples[k], TRUE).v } : k \in {1, 2, CurveN - 1} }
    \cup { <<>>, <<4, 0, 0, 0, 0>>, <<0, 0, 0, 0>>, <<2, 0, 1>> }

NoWireCall == [op |-> "none"]

WireInit ==
    wire = [class |-> "none", key |-> NoKey, src |-> "none", depth |-> 0,
            last |-> NoWireCall]

\* what a static constructor leaves: the key it returned, or its error
Built(class, src, result, made) ==
    IF result.ok
    THEN [class |-> class, key |-> result.v, src |-> src, depth |-> 0, last |-> made]
    ELSE [class |-> "none", key |-> NoKey, src |-> "none", depth |-> 0, last |-> made]

\* OmniKey.fromNEAR(w) or MPCKey.fromNEAR(w)
WireFromNEAR(class, w) ==
    /\ wire.class = "none"
    /\ LET result == IF class = "OmniKey" THEN OmniKey_fromNEAR(w) ELSE MPCKey_fromNEAR(w)
       IN  wire' = Built(class, "fromNEAR", result,
                         [op |-> "fromNEAR", input |-> w, result |-> result])

\* fromPoint(k * G)
WireFromPoint(class, k) ==
    /\ wire.class = "none"
    /\ LET key == IF class = "OmniKey"
                  THEN OmniKey_fromPoint(BaseMultiples[k])
                  ELSE MPCKey_fromPoint(BaseMultiples[k])
       IN  wire' = Built(class, "fromPoint", Ok(key), [op |-> "fromPoint"])

\* fromBytes(bytes)
WireFromBytes(class, bytes) ==
    /\ wire.class = "none"
    /\ LET result == OmniKey_fromBytes(bytes)
       IN  wire' = Built(class, "fromBytes", result,
                         [op |-> "fromBytes", input |-> bytes, ok |-> result.ok])

\* OmniKey.fromSecret(s)
WireFromSecret(s) ==
    /\ wire.class = "none"
    /\ wire' = Built("OmniKey", "fromSecret", OmniKey_fromSecret(s),
                     [op |-> "fromSecret"])

\* key.derive(predecessorId, path): the child takes the place of the key
WireDerive(predecessorId, path) ==
    /\ wire.class # "none"
    /\ wire.depth < MaxDerive
    /\ LET result == IF wire.class = "OmniKey"
                     THEN OmniKey_derive(wire.key, predecessorId, path)
                     ELSE MPCKey_derive(wire.key, predecessorId, path)
       IN  wire' = IF result.ok
                   THEN [wire EXCEPT !.key = result.v, !.depth = @ + 1,
                                     !.last = [op |-> "derive", ok |-> TRUE]]
                   ELSE [wire EXCEPT !.last = [op |-> "derive", ok |-> FALSE]]

\* fromNEAR(key.near) of the class of the key
WireNear ==
    /\ wire.class # "none"
    /\ LET near == OmniKey_near(wire.key)
           back == IF ~near.ok
                   THEN near
                   ELSE IF wire.class = "OmniKey"
                   THEN OmniKey_fromNEAR(near.v)
                   ELSE MPCKey_fromNEAR(near.v)
       IN  wire' = [wire EXCEPT !.last = [op |-> "near", near |-> near, back |-> back]]

\* key.canSign(), key.secretKey, key.secretBytes, key.secretHex
WireReadSecret ==
    /\ wire.class = "OmniKey"
    /\ wire' = [wire EXCEPT !.last =
                   [op |-> "secret",
                    canSign |-> OmniKey_canSign(wire.key),
                    secretKey |-> OmniKey_secretKey(wire.key),
                    secretBytes |-> OmniKey_secretBytes(wire.key),
                    secretHex |-> OmniKey_secretHex(wire.key)]]

WireNext ==
    \/ /\ wire.class = "none"
       /\ \E class \in KeyClasses, w \in Wires : WireFromNEAR(class, w)
       /\ UNCHANGED <<signVars, keyVars, concVars, treeVars, probeVars, heapVars>>
    \/ /\ wire.class = "none"
       /\ \E class \in KeyClasses, k \in Secrets : WireFromPoint(class, k)
       /\ UNCHANGED <<signVars, keyVars, concVars, treeVars, probeVars, heapVars>>
    \/ /\ wire.class = "none"
       /\ \E class \in KeyClasses, bytes \in KeyBytes : WireFromBytes(class, bytes)
       /\ UNCHANGED <<signVars, keyVars, concVars, treeVars, probeVars, heapVars>>
    \/ /\ wire.class = "none"
       /\ \E s \in Secrets : WireFromSecret(s)
       /\ UNCHANGED <<signVars, keyVars, concVars, treeVars, probeVars, heapVars>>
    \/ /\ wire.class # "none"
       /\ \E a \in Accounts, p \in DerivePaths : WireDerive(a, p)
       /\ UNCHANGED <<signVars, keyVars, concVars, treeVars, probeVars, heapVars>>
    \/ WireNear /\ UNCHANGED <<signVars, keyVars, concVars, treeVars, probeVars, heapVars>>
    \/ WireReadSecret /\ UNCHANGED <<signVars, keyVars, concVars, treeVars, probeVars, heapVars>>

-----------------------------------------------------------------------------
(* One parent derived for two (account, path) pairs, side by side and in both *)
(* orders: c1 and c2 are its children, c12 and c21 its grandchildren          *)

\* the parents of the three classes for one secret
Roots(s) ==
    [omni |-> OmniKey_fromSecret(s),
     omniPub |-> Ok(OmniKey_fromPoint(BASE_multiply(s).v)),
     mock |-> MockMPCKey_fromSecret(s)]

\* derive(predecessorId, path) on a key of every class; a call on a key that
\* was never returned is not made
DeriveAll(keys, predecessorId, path) ==
    [omni |-> IF keys.omni.ok
              THEN OmniKey_derive(keys.omni.v, predecessorId, path)
              ELSE Err("no parent"),
     omniPub |-> IF keys.omniPub.ok
                 THEN OmniKey_derive(keys.omniPub.v, predecessorId, path)
                 ELSE Err("no parent"),
     mock |-> IF keys.mock.ok
              THEN MockMPCKey_derive(keys.mock.v, predecessorId, path)
              ELSE Err("no parent")]

NoPair == [predecessorId |-> <<>>, path |-> <<>>]
NoKeys == [omni |-> Err("no key"), omniPub |-> Err("no key"), mock |-> Err("no key")]

TreeInit ==
    tree = [stage |-> "none", root |-> NoKeys, pair1 |-> NoPair, pair2 |-> NoPair,
            c1 |-> NoKeys, c2 |-> NoKeys, c12 |-> NoKeys, c21 |-> NoKeys]

\* the parent is built from the secret s
TreeRoot(s) ==
    /\ tree.stage = "none"
    /\ tree' = [tree EXCEPT !.stage = "root", !.root = Roots(s)]

\* c1 = parent.derive(predecessorId, path)
TreeFirst(predecessorId, path) ==
    /\ tree.stage = "root"
    /\ tree' = [tree EXCEPT !.stage = "one",
                            !.pair1 = [predecessorId |-> predecessorId, path |-> path],
                            !.c1 = DeriveAll(tree.root, predecessorId, path)]

\* c2 = parent.derive(predecessorId, path), for a second pair
TreeSecond(predecessorId, path) ==
    /\ tree.stage = "one"
    /\ tree' = [tree EXCEPT !.stage = "two",
                            !.pair2 = [predecessorId |-> predecessorId, path |-> path],
                            !.c2 = DeriveAll(tree.root, predecessorId, path)]

\* c12 = c1.derive(pair2) and c21 = c2.derive(pair1)
TreeCross ==
    /\ tree.stage = "two"
    /\ tree' = [tree EXCEPT !.stage = "crossed",
                            !.c12 = DeriveAll(tree.c1, tree.pair2.predecessorId,
                                              tree.pair2.path),
                            !.c21 = DeriveAll(tree.c2, tree.pair1.predecessorId,
                                              tree.pair1.path)]

TreeNext ==
    \/ /\ tree.stage = "none"
       /\ \E s \in Secrets : TreeRoot(s)
       /\ UNCHANGED <<signVars, keyVars, concVars, wireVars, probeVars, heapVars>>
    \/ /\ tree.stage = "root"
       /\ \E a \in Accounts, p \in DerivePaths : TreeFirst(a, p)
       /\ UNCHANGED <<signVars, keyVars, concVars, wireVars, probeVars, heapVars>>
    \/ /\ tree.stage = "one"
       /\ \E a \in Accounts, p \in DerivePaths : TreeSecond(a, p)
       /\ UNCHANGED <<signVars, keyVars, concVars, wireVars, probeVars, heapVars>>
    \/ TreeCross /\ UNCHANGED <<signVars, keyVars, concVars, wireVars, probeVars, heapVars>>

-----------------------------------------------------------------------------
(* Contract.getSupportedSignatureTypes: two view calls, one after the other *)

\* what account.viewFunction does with a probe: it resolves with some value or
\* rejects with some error
ViewAnswers ==
    { [kind |-> "returns", value |-> v] :
         v \in { "secp256k1:...", "ed25519:...", "", "null", "{}", "0" } }
    \cup { [kind |-> "throws", message |-> m] :
              m \in { "Domain not found", "Contract method is not found",
                      "Account does not exist", "fetch failed", "timeout",
                      "Payload is not Ecdsa" } }

\* the view call of a probe
ViewCall(domainId) ==
    [methodName |-> "public_key", args |-> [domain_id |-> domainId]]

ProbeInit ==
    probe = [pc |-> "idle", views |-> <<>>, support |-> [ecdsa |-> FALSE, eddsa |-> FALSE],
             answer0 |-> NoAnswer, answer1 |-> NoAnswer, outcome |-> NoOutcome]

\* the first try block after its await: support.ecdsa = true unless the call threw
ProbeEcdsa(support, answer) ==
    IF answer.kind = "returns" THEN [support EXCEPT !.ecdsa = TRUE] ELSE support

\* a second probe that counts only when the first succeeded: not the code
ProbeEddsa_afterEcdsa(support, answer) ==
    IF answer.kind = "returns" /\ support.ecdsa
    THEN [support EXCEPT !.eddsa = TRUE]
    ELSE support

\* the second try block after its await: support.eddsa = true unless the call threw
ProbeEddsa(support, answer) ==
    IF answer.kind = "returns" THEN [support EXCEPT !.eddsa = TRUE] ELSE support

\* getSupportedSignatureTypes is called: support starts false, false and the
\* view call for domain 0 is made
ProbeStart ==
    /\ probe.pc = "idle"
    /\ probe' = [probe EXCEPT !.pc = "domain0", !.views = <<ViewCall(0)>>]

\* the first view call settles; whatever it did, the view call for domain 1 is made
ProbeFirstSettles(answer) ==
    /\ probe.pc = "domain0"
    /\ probe' = [probe EXCEPT !.pc = "domain1",
                              !.answer0 = answer,
                              !.support = ProbeEcdsa(probe.support, answer),
                              !.views = Append(probe.views, ViewCall(1))]

\* the second view call settles and support is returned
ProbeSecondSettles(answer) ==
    /\ probe.pc = "domain1"
    /\ LET support == ProbeEddsa(probe.support, answer)
       IN  probe' = [probe EXCEPT !.pc = "done",
                                  !.answer1 = answer,
                                  !.support = support,
                                  !.outcome = [kind |-> "returns", value |-> support]]

ProbeNext ==
    \/ ProbeStart /\ UNCHANGED <<signVars, keyVars, concVars, wireVars, treeVars, heapVars>>
    \/ /\ probe.pc = "domain0"
       /\ \E answer \in ViewAnswers : ProbeFirstSettles(answer)
       /\ UNCHANGED <<signVars, keyVars, concVars, wireVars, treeVars, heapVars>>
    \/ /\ probe.pc = "domain1"
       /\ \E answer \in ViewAnswers : ProbeSecondSettles(answer)
       /\ UNCHANGED <<signVars, keyVars, concVars, wireVars, treeVars, heapVars>>

-----------------------------------------------------------------------------
(* Several sign calls in flight on one Contract *)

Slots == 1..MaxCalls

\* the implementations of sign the concurrent calls go through
ConcVariants == {"args", "object"}

\* two requests that pass validation, one per scheme, and one that does not
ConcRequests ==
    { [path |-> <<"e", "-", "1">>, message |-> Rep("a", 64),
       signatureType |-> "ecdsa", domainId |-> Num(0)],
      [path |-> <<"e", "-", "1">>, message |-> Rep("a", 64),
       signatureType |-> "eddsa", domainId |-> Num(1)],
      [path |-> <<>>, message |-> Rep("a", 64),
       signatureType |-> "ecdsa", domainId |-> Num(0)] }

\* what the transport answers one call with
ConcAnswers ==
    { [kind |-> "throws", message |-> "Exceeded the prepaid gas"],
      [kind |-> "returns",
       result |-> [status |-> "present", SuccessValue |-> [t |-> "empty"]]],
      [kind |-> "returns",
       result |-> [status |-> "present",
                   SuccessValue |-> [t |-> "json",
                       value |-> [scheme |-> "Secp256k1",
                                  big_r |-> [affine_point |-> <<"0", "2", "0", "a">>],
                                  s |-> [scalar |-> <<"0", "7">>],
                                  recovery_id |-> Num(1)]]]],
      [kind |-> "returns",
       result |-> [status |-> "present",
                   SuccessValue |-> [t |-> "json",
                       value |-> [scheme |-> "Ed25519",
                                  signature |-> Rep(Num(7), 64)]]]] }

\* the calls that are awaiting the transport
InFlight(cs) ==
    { cs[j].sent[1] : j \in { k \in Slots : cs[k].pc = "awaiting" /\ cs[k].sent # <<>> } }

\* a sign that joins an identical call in flight instead of submitting: not the code
ConcSubmit_coalesced(begin, inFlight) ==
    IF begin.kind = "throw" \/ begin.call \in inFlight THEN <<>> ELSE <<begin.call>>

\* what a sign call hands to the transport: this.account and this.contractId are
\* the only fields of Contract and sign writes neither, so the calls in flight
\* have no part in it
ConcSubmit(begin, inFlight) ==
    IF begin.kind = "throw" THEN <<>> ELSE <<begin.call>>

ConcInit ==
    /\ calls = [i \in Slots |-> IdleCall]
    /\ received = 0

\* caller i invokes sign while other calls may be in flight
ConcSign(i, variant, req) ==
    /\ calls[i].pc = "idle"
    /\ LET begin == SignBegin(variant, req)
           submitted == ConcSubmit(begin, InFlight(calls))
       IN  /\ calls' = [calls EXCEPT ![i] =
                 IF begin.kind = "throw"
                 THEN [pc |-> "done", variant |-> variant, req |-> req,
                       sent |-> <<>>, answer |-> NoAnswer,
                       outcome |-> Failure(begin.stage, begin.message)]
                 ELSE [pc |-> "awaiting", variant |-> variant, req |-> req,
                       sent |-> submitted, answer |-> NoAnswer,
                       outcome |-> NoOutcome]]
           /\ received' = received + Len(submitted)

\* the transport settles the call of caller i and that sign runs to its end
ConcSettle(i, answer) ==
    /\ calls[i].pc = "awaiting"
    /\ calls' = [calls EXCEPT ![i] =
                    [@ EXCEPT !.pc = "done", !.answer = answer,
                              !.sent = @ \o Resubmitted(calls[i].variant, @, answer),
                              !.outcome = SignEnd(calls[i].variant, answer)]]
    /\ received' = received
                   + Len(Resubmitted(calls[i].variant, calls[i].sent, answer))

\* MaxCalls callers, each signing once, in any interleaving
ConcNext ==
    \/ \E i \in Slots :
          /\ calls[i].pc = "idle"
          /\ \E variant \in ConcVariants, req \in ConcRequests :
                ConcSign(i, variant, req)
          /\ UNCHANGED <<signVars, keyVars, wireVars, treeVars, probeVars, heapVars>>
    \/ \E i \in Slots :
          /\ calls[i].pc = "awaiting"
          /\ \E answer \in ConcAnswers : ConcSettle(i, answer)
          /\ UNCHANGED <<signVars, keyVars, wireVars, treeVars, probeVars, heapVars>>

-----------------------------------------------------------------------------
(* Key objects on a heap: a caller holds references to keys, calls derive   *)
(* on any of them any number of times and signs in between                  *)

\* the longest record of calls kept
MaxHistory == 4
\* the most key objects a caller keeps a reference to
MaxHeap == 3

HeapSecrets == {1, 7, CurveN - 1}
HeapAccounts == Accounts
HeapPaths == { <<"b">>, <<"c">> }
HeapClasses == {"OmniKey", "MPCKey"}
HeapVariants == {"args", "positional"}
\* message hashes, as the numbers their bytes stand for
HeapMessageHashes == {5, 40}

\* a request that passes validation and one that does not
HeapRequests ==
    { [path |-> <<"e", "-", "1">>, message |-> Rep("a", 64),
       signatureType |-> "ecdsa", domainId |-> Num(0)],
      [path |-> <<>>, message |-> Rep("a", 64),
       signatureType |-> "ecdsa", domainId |-> Num(0)] }

\* the transport throws, or returns an ECDSA signature
HeapAnswers ==
    { [kind |-> "throws", message |-> "Exceeded the prepaid gas"],
      [kind |-> "returns",
       result |-> [status |-> "present",
                   SuccessValue |-> [t |-> "json",
                       value |-> [scheme |-> "Secp256k1",
                                  big_r |-> [affine_point |-> <<"0", "2", "0", "a">>],
                                  s |-> [scalar |-> <<"0", "7">>],
                                  recovery_id |-> Num(1)]]]] }

HeapInit ==
    /\ heap = <<>>
    /\ history = <<>>

\* the key with the secret and the public-only key of one family of classes:
\* OmniKey.fromSecret and OmniKey.fromPoint, or MockMPCKey.fromSecret and
\* MPCKey.fromPoint
HeapNew(class, s) ==
    /\ heap = <<>>
    /\ heap' = IF class = "OmniKey"
               THEN << [class |-> "OmniKey", fields |-> OmniKey_fromSecret(s).v],
                       [class |-> "OmniKey",
                        fields |-> OmniKey_fromPoint(BASE_multiply(s).v)] >>
               ELSE << [class |-> "MockMPCKey", fields |-> MockMPCKey_fromSecret(s).v],
                       [class |-> "MPCKey",
                        fields |-> MPCKey_fromPoint(BASE_multiply(s).v)] >>
    /\ UNCHANGED history

\* this.derive(predecessorId, path) of the class of the object
Object_derive(this, predecessorId, path) ==
    CASE this.class = "OmniKey" -> OmniKey_derive(this.fields, predecessorId, path)
      [] this.class = "MPCKey" -> MPCKey_derive(this.fields, predecessorId, path)
      [] this.class = "MockMPCKey" -> MockMPCKey_derive(this.fields, predecessorId, path)

\* a derive that adds the tweak to the key it is called on: not the code
ThisAfterDerive_inPlace(this, result) ==
    IF result.ok THEN [this EXCEPT !.fields = result.v] ELSE this

\* the object derive was called on, after the call: its fields are readonly,
\* derive assigns to none of them and returns a new object
ThisAfterDerive(this, result) ==
    this

\* heap[k].derive(predecessorId, path): the caller keeps the child while it
\* has room for it, and the call is written down with what it returned
HeapDerive(k, predecessorId, path) ==
    /\ k \in 1..Len(heap)
    /\ Len(history) < MaxHistory
    /\ LET this == heap[k]
           result == Object_derive(this, predecessorId, path)
           after == [heap EXCEPT ![k] = ThisAfterDerive(this, result)]
       IN  /\ heap' = IF result.ok /\ Len(heap) < MaxHeap
                      THEN Append(after, [class |-> this.class, fields |-> result.v])
                      ELSE after
           /\ history' = Append(history,
                                [op |-> "derive", key |-> k, this |-> this,
                                 predecessorId |-> predecessorId, path |-> path,
                                 result |-> result])

\* the multiplicative inverse modulo the group order
invN(k) == CHOOSE x \in 1..(CurveN - 1) : (x * k) % CurveN = 1

\* the nonce of RFC 6979 stands in as a number in 1..n-1 fixed by the hash,
\* the secret and the number of nonces refused before it
Rfc6979Nonce(m, d, refused) == 1 + ((m + 3 * d + refused) % (CurveN - 1))

\* k2sig of secp256k1.sign: the signature for the nonce k, or none when r or s
\* is zero; s is kept in the low half and the recovery bit flipped with it
k2sig(m, d, k) ==
    LET q == TimesG(k)
        r == mod(q.x, CurveN)
        s == mod(invN(k) * mod(m + r * d, CurveN), CurveN)
        recovery == (IF q.x = r THEN 0 ELSE 2) + (q.y % 2)
        high == s > CurveN \div 2
    IN  IF r = 0 \/ s = 0
        THEN Err("no signature for this nonce")
        ELSE Ok([r |-> r,
                 s |-> IF high THEN CurveN - s ELSE s,
                 recovery |-> IF high
                              THEN (IF recovery % 2 = 0 THEN recovery + 1 ELSE recovery - 1)
                              ELSE recovery])

\* secp256k1.sign(messageHash, privateKey): the private key must be a scalar
\* in 1..n-1; nonces are drawn until one gives a signature
secp256k1_sign(messageHash, privateKey) ==
    IF privateKey < 1 \/ privateKey >= CurveN
    THEN Err("invalid private key")
    ELSE LET m == mod(messageHash, CurveN)
             good == {t \in 0..(CurveN - 2) :
                         k2sig(m, privateKey, Rfc6979Nonce(m, privateKey, t)).ok}
             least == CHOOSE t \in good : \A u \in good : t <= u
         IN  IF good = {}
             THEN Err("no nonce gives a signature")
             ELSE k2sig(m, privateKey, Rfc6979Nonce(m, privateKey, least))

\* MockMPCKey.sign
MockMPCKey_sign(key, messageHash) == secp256k1_sign(messageHash, key.secretKey)

\* heap[k].sign(messageHash) on a key of the class that has the method: it
\* reads the secret and leaves the key as it is
HeapKeySign(k, messageHash) ==
    /\ k \in 1..Len(heap)
    /\ heap[k].class = "MockMPCKey"
    /\ Len(history) < MaxHistory
    /\ history' = Append(history,
                         [op |-> "sign", variant |-> "MockMPCKey.sign", key |-> k,
                          signature |-> MockMPCKey_sign(heap[k].fields, messageHash)])
    /\ UNCHANGED heap

\* a sign call begins between two derive calls: Contract holds an account and
\* a contract id and reads no key
HeapSign(variant, req) ==
    /\ heap # <<>>
    /\ Len(history) < MaxHistory
    /\ Sign(variant, req)
    /\ history' = Append(history, [op |-> "sign", variant |-> variant, key |-> 0])
    /\ UNCHANGED heap

HeapSettle(answer) ==
    /\ Settle(answer)
    /\ UNCHANGED heapVars

HeapForget ==
    /\ Forget
    /\ UNCHANGED heapVars

HeapNext ==
    \/ /\ heap = <<>>
       /\ \E class \in HeapClasses, s \in HeapSecrets : HeapNew(class, s)
       /\ UNCHANGED <<signVars, keyVars, concVars, wireVars, treeVars, probeVars>>
    \/ /\ heap # <<>>
       /\ \E k \in 1..MaxHeap, a \in HeapAccounts, p \in HeapPaths : HeapDerive(k, a, p)
       /\ UNCHANGED <<signVars, keyVars, concVars, wireVars, treeVars, probeVars>>
    \/ /\ heap # <<>>
       /\ \E k \in 1..MaxHeap, messageHash \in HeapMessageHashes :
             HeapKeySign(k, messageHash)
       /\ UNCHANGED <<signVars, keyVars, concVars, wireVars, treeVars, probeVars>>
    \/ /\ call.pc = "idle"
       /\ \E variant \in HeapVariants, req \in HeapRequests : HeapSign(variant, req)
       /\ UNCHANGED <<keyVars, concVars, wireVars, treeVars, probeVars>>
    \/ /\ call.pc = "awaiting"
       /\ \E answer \in HeapAnswers : HeapSettle(answer)
       /\ UNCHANGED <<keyVars, concVars, wireVars, treeVars, probeVars>>
    \/ HeapForget /\ UNCHANGED <<keyVars, concVars, wireVars, treeVars, probeVars>>

-----------------------------------------------------------------------------
Init == SignInit /\ KeyInit /\ ConcInit /\ WireInit /\ TreeInit /\ ProbeInit /\ HeapInit

Next == SignNext \/ KeyNext \/ ConcNext \/ WireNext \/ TreeNext \/ ProbeNext \/ HeapNext

\* sign calls and key derivations, interleaved
Spec == Init /\ [][Next]_vars

\* the signing protocol alone
SpecSign == Init /\ [][SignNext]_vars

\* key derivation alone
SpecKey == Init /\ [][KeyNext]_vars

\* concurrent sign calls alone
SpecConcurrent == Init /\ [][ConcNext]_vars

\* one key: built, derived, written to the wire format and read
SpecWire == Init /\ [][WireNext]_vars

\* one parent derived for two pairs, in both orders
SpecTree == Init /\ [][TreeNext]_vars

\* one call of getSupportedSignatureTypes
SpecProbe == Init /\ [][ProbeNext]_vars

\* derive calls on the key objects a caller holds, and sign calls in between
SpecHeap == Init /\ [][HeapNext]_vars


-----------------------------------------------------------------------------
(* Properties of key derivation, under SpecKey *)

\* two calls ended alike: both threw, or both returned the same value
SameResult(a, b) == a.ok = b.ok /\ (a.ok => a.v = b.v)

\* C1: every key that carries a secret, built from a secret or reached by any
\* chain of derive calls from such a key, has the public point secret * G
C1_SecretTimesGIsPublic ==
    depth >= 0 =>
        /\ omniV1.hasSecret /\ omniV1.publicKey = TimesG(omniV1.secretKey)
        /\ omni.hasSecret /\ omni.publicKey = TimesG(omni.secretKey)
        /\ mock.hasSecret /\ mock.publicKey = TimesG(mock.secretKey)

\* a chain of two derivations or more, none of which threw, whose first step
\* wrapped around the group order
C1_Witness ==
    /\ depth >= 2
    /\ threw = {}
    /\ first.set
    /\ first.child.ok
    /\ first.parent.secretKey + Epsilon(first.predecessorId, first.path) >= CurveN
    /\ omni.secretKey # first.child.v.secretKey

\* C2: deriving (a, p) from the public-only key for s * G and from the key with
\* the secret s gives the same public point; in the split classes,
\* OmniSecretKey.derive(a, p).publicKey is OmniPublicKey.derive(a, p) of the
\* parent's public key
C2_PublicAndSecretDerivationAgree ==
    depth >= 1 =>
        /\ omniPub.publicKey = omni.publicKey
        /\ mpc.publicKey = mock.publicKey
        /\ opk.ok =>
              /\ OmniSecretKey_publicKey(osk).ok
              /\ OmniSecretKey_publicKey(osk).v = opk.v

\* the call of the record is a derive call
IsDerive(e) == e.op = "derive"

\* two derive calls with the same key, account and path: the same key is the
\* same object, or an object of the same class with the same fields
SameCall(e, f) ==
    /\ e.key = f.key \/ e.this = f.this
    /\ e.predecessorId = f.predecessorId
    /\ e.path = f.path

\* both calls threw, or both returned a key: with the same public point and,
\* where the key they were called on has a secret, the same secret scalar
SameKeys(e, f) ==
    /\ e.result.ok = f.result.ok
    /\ e.result.ok =>
          /\ e.result.v.publicKey = f.result.v.publicKey
          /\ e.this.fields.hasSecret =>
                /\ e.result.v.hasSecret
                /\ f.result.v.hasSecret
                /\ e.result.v.secretKey = f.result.v.secretKey

\* C3: any two calls derive(k, a, p) return keys with the same public point
\* and, when k has a secret, the same secret scalar, whatever derive calls (on
\* k, on other keys, on the children) and sign calls (Contract.sign, and
\* MockMPCKey.sign on k or another key) were made in between
C3_DeriveIsDeterministic ==
    \A i \in 1..Len(history), j \in 1..Len(history) :
        i < j /\ IsDerive(history[i]) /\ IsDerive(history[j])
              /\ SameCall(history[i], history[j])
        => SameKeys(history[i], history[j])

\* derive was called twice on one key object that has a secret, with the same
\* account and path; between the two calls the same object was derived for
\* another pair and Contract.sign was called, which has run to its end; both
\* calls returned a key
C3_Witness ==
    /\ Len(history) = 4
    /\ IsDerive(history[1])
    /\ IsDerive(history[4])
    /\ history[1].key = history[4].key
    /\ history[1].predecessorId = history[4].predecessorId
    /\ history[1].path = history[4].path
    /\ history[1].this.fields.hasSecret
    /\ history[1].result.ok
    /\ history[4].result.ok
    /\ \E m \in {2, 3} :
          /\ IsDerive(history[m])
          /\ history[m].key = history[1].key
          /\ history[m].path # history[1].path
          /\ history[m].result.ok
    /\ \E m \in {2, 3} : history[m].op = "sign" /\ history[m].variant \in HeapVariants
    /\ call.pc = "done"

-----------------------------------------------------------------------------
(* Properties of sign, under SpecSign *)

\* the path is empty or white space only
Blank(path) == \A i \in 1..Len(path) : path[i] \in WhiteSpace
\* every character is one of 0-9, a-f, A-F
AllHex(message) == \A i \in 1..Len(message) : message[i] \in HexChars
\* the domain id is a number that is negative or no integer
BadDomain(domainId) ==
    domainId.t = "number" /\ (domainId.int < 0 \/ domainId.frac # 0)
\* a hex string of exactly 32 bytes
Hex32Bytes(message) == AllHex(message) /\ Len(message) = 64
\* a hex string of 32 to 1232 bytes
Hex32To1232Bytes(message) ==
    /\ AllHex(message)
    /\ Len(message) % 2 = 0
    /\ Len(message) >= 64
    /\ Len(message) <= 2464

\* the scheme the caller asked for: ECDSA when the signature type is left out
RequestedScheme == SignatureTypeOrDefault(call.req.signatureType)

Started == call.pc # "idle"
Submitted == call.sent # <<>>
\* sign ended with a validation error
ValidationError ==
    call.pc = "done" /\ call.outcome.kind = "error" /\ call.outcome.stage = "validation"

\* the request has one of the defects validation names: an empty path, a
\* message that is no hex string or has the wrong length for the scheme, a
\* domain id that is negative or no integer
FailsValidation ==
    \/ call.req.path = <<>>
    \/ ~AllHex(call.req.message)
    \/ RequestedScheme = "ecdsa" /\ ~Hex32Bytes(call.req.message)
    \/ RequestedScheme = "eddsa" /\ ~Hex32To1232Bytes(call.req.message)
    \/ BadDomain(call.req.domainId)

\* C4: a sign call that ends with a validation error has submitted nothing, and
\* a request with an empty path, a non-hex message, a message of the wrong
\* length for its scheme or a negative or non-integer domain id ends with a
\* validation error and is never submitted, whichever sign is called
C4_ValidationFailureNeverSubmits ==
    /\ ValidationError => ~Submitted
    /\ Started /\ FailsValidation => ValidationError /\ ~Submitted

\* C5: with no domain id from the caller the submitted domain_id is 0 for ECDSA
\* and 1 for EdDSA; a domain id from the caller is submitted unchanged
C5_DefaultDomainByScheme ==
    Submitted =>
        call.sent[1].args.request.domain_id =
            IF IsUndefined(call.req.domainId)
            THEN (IF RequestedScheme = "ecdsa" THEN Num(0) ELSE Num(1))
            ELSE call.req.domainId

\* C6: the submitted arguments are { request: { domain_id, path, payload_v2 } },
\* payload_v2 has the one key Ecdsa for ECDSA and the one key Eddsa for EdDSA,
\* and the value under it and the path are the caller's message and path
C6_WireShape ==
    Submitted =>
        LET args == call.sent[1].args
        IN  /\ DOMAIN args = {"request"}
            /\ DOMAIN args.request = {"domain_id", "path", "payload_v2"}
            /\ args.request.path = call.req.path
            /\ IF RequestedScheme = "ecdsa"
               THEN /\ DOMAIN args.request.payload_v2 = {"Ecdsa"}
                    /\ args.request.payload_v2.Ecdsa = call.req.message
               ELSE /\ DOMAIN args.request.payload_v2 = {"Eddsa"}
                    /\ args.request.payload_v2.Eddsa = call.req.message

\* a built EdDSA request of 1232 bytes with padding around its path was submitted
C6_Witness ==
    /\ Submitted
    /\ call.variant = "built"
    /\ call.req.signatureType = "eddsa"
    /\ Len(call.req.message) = 2464
    /\ call.req.path = <<" ", "x", " ">>
    /\ call.sent[1].args.request.payload_v2.Eddsa = call.req.message

\* C7: an ECDSA request (its path and domain id in order) is accepted if and
\* only if its message is a non-empty hex string of exactly 32 bytes; every
\* other message is rejected by validation
C7_EcdsaMessageBoundary ==
    /\ Started
    /\ RequestedScheme = "ecdsa"
    /\ ~Blank(call.req.path)
    /\ ~BadDomain(call.req.domainId)
    => /\ Submitted <=> Hex32Bytes(call.req.message)
       /\ ~Hex32Bytes(call.req.message) => ValidationError

\* a 32-byte ECDSA hash with upper-case digits was submitted
C7_Witness ==
    /\ Submitted
    /\ call.req.signatureType = "ecdsa"
    /\ call.req.message = Rep("a", 62) \o <<"F", "7">>

\* C8: an EdDSA request (its path and domain id in order) is accepted if and
\* only if its message is a hex string of 32 to 1232 bytes; every other message
\* is rejected by validation
C8_EddsaMessageBoundary ==
    /\ Started
    /\ RequestedScheme = "eddsa"
    /\ ~Blank(call.req.path)
    /\ ~BadDomain(call.req.domainId)
    => /\ Submitted <=> Hex32To1232Bytes(call.req.message)
       /\ ~Hex32To1232Bytes(call.req.message) => ValidationError

\* an EdDSA message of exactly 1232 bytes was submitted
C8_Witness ==
    /\ Submitted
    /\ call.req.signatureType = "eddsa"
    /\ Len(call.req.message) = 2464

\* C9: a request whose path is empty or white space only is rejected by
\* validation and nothing is submitted
C9_BlankPathRejected ==
    Started /\ Blank(call.req.path) => ValidationError /\ ~Submitted

\* the bytes are a number from 1 up to the group order (which fits one byte):
\* what a secp256k1 signature takes for r and for s
InOrder(bytes) ==
    /\ bytes # <<>>
    /\ \A i \in 1..(Len(bytes) - 1) : bytes[i] = 0
    /\ bytes[Len(bytes)] >= 1
    /\ bytes[Len(bytes)] < CurveN

\* C10: for a schema-valid Secp256k1 response, the signature sign returns has r
\* the big-endian integer of the affine_point bytes after the first, s the
\* big-endian integer of the scalar bytes, and the response's recovery_id; sign
\* returns one for every response whose r and s a secp256k1 signature can hold
C10_EcdsaConversion ==
    /\ call.pc = "done"
    /\ call.answer.kind = "returns"
    /\ call.answer.result.status = "present"
    /\ call.answer.result.SuccessValue.t = "json"
    /\ call.answer.result.SuccessValue.value \in EcdsaResponses
    /\ AllHex(call.answer.result.SuccessValue.value.big_r.affine_point)
    /\ Len(call.answer.result.SuccessValue.value.big_r.affine_point) % 2 = 0
    /\ AllHex(call.answer.result.SuccessValue.value.s.scalar)
    /\ Len(call.answer.result.SuccessValue.value.s.scalar) % 2 = 0
    /\ call.answer.result.SuccessValue.value.recovery_id \in {Num(0), Num(1), Num(2), Num(3)}
    => LET response == call.answer.result.SuccessValue.value
           rBytes == Tail(hexToBytes(response.big_r.affine_point))
           sBytes == hexToBytes(response.s.scalar)
       IN  IF InOrder(rBytes) /\ InOrder(sBytes)
           THEN /\ call.outcome.kind = "signature"
                /\ call.outcome.sig.scheme = "ecdsa"
                /\ call.outcome.sig.r = bytesToNumberBE(rBytes)
                /\ call.outcome.sig.s = bytesToNumberBE(sBytes)
                /\ call.outcome.sig.recovery = response.recovery_id
           ELSE call.outcome.kind = "error"

\* sign returned the signature of a response with a two-byte r after the tag
C10_Witness ==
    /\ call.pc = "done"
    /\ call.outcome.kind = "signature"
    /\ call.outcome.sig.scheme = "ecdsa"
    /\ call.answer.result.SuccessValue.value.big_r.affine_point
          = <<"0", "3", "0", "0", "1", "E">>
    /\ call.outcome.sig.r = 30
    /\ call.outcome.sig.s = 7
    /\ call.outcome.sig.recovery = Num(3)

\* the transport returned a success value that decodes to JSON
ReturnedJson ==
    /\ call.pc = "done"
    /\ call.answer.kind = "returns"
    /\ call.answer.result.status = "present"
    /\ call.answer.result.SuccessValue.t = "json"
\* the JSON value the transport returned
Response == call.answer.result.SuccessValue.value

\* an Ed25519 response with an array of 64 integers from 0 to 255
ValidEd25519(v) ==
    /\ v.scheme = "Ed25519"
    /\ "signature" \in DOMAIN v
    /\ Len(v.signature) = 64
    /\ \A i \in 1..Len(v.signature) :
          /\ v.signature[i].t = "number"
          /\ v.signature[i].frac = 0
          /\ v.signature[i].int >= 0
          /\ v.signature[i].int <= 255

\* C11: for a schema-valid Ed25519 response sign returns a byte sequence of
\* length 64 that equals the response's signature array, element for element
C11_EddsaVerbatim ==
    ReturnedJson /\ ValidEd25519(Response) =>
        /\ call.outcome.kind = "signature"
        /\ call.outcome.sig.scheme = "eddsa"
        /\ Len(call.outcome.sig.bytes) = 64
        /\ \A i \in 1..64 : call.outcome.sig.bytes[i] = Response.signature[i].int

\* sign returned the 64 bytes 255, 254, ..., 192 of a response in that order
C11_Witness ==
    /\ ReturnedJson
    /\ ValidEd25519(Response)
    /\ call.outcome.kind = "signature"
    /\ call.outcome.sig.bytes[1] = 255
    /\ call.outcome.sig.bytes[64] = 192

\* the recovery id is no integer from 0 to 3
BadRecoveryId(rid) ==
    rid.t # "number" \/ rid.frac # 0 \/ rid.int < 0 \/ rid.int > 3

\* a payload with an unknown scheme tag, with missing fields, with a recovery id
\* that is no integer from 0 to 3, with r or s that is not hexadecimal, or with
\* an Ed25519 array that is not 64 integers from 0 to 255
MalformedPayload(v) ==
    \/ v.scheme \notin {"Secp256k1", "Ed25519"}
    \/ /\ v.scheme = "Secp256k1"
       /\ \/ ~({"big_r", "s", "recovery_id"} \subseteq DOMAIN v)
          \/ BadRecoveryId(v.recovery_id)
          \/ ~AllHex(v.big_r.affine_point)
          \/ ~AllHex(v.s.scalar)
    \/ /\ v.scheme = "Ed25519"
       /\ ~ValidEd25519(v)

\* sign failed with the malformed-response error
MalformedResponseError ==
    /\ call.outcome.kind = "error"
    /\ call.outcome.stage = "response"
    /\ SubSeq(call.outcome.message, 1, Len(FailedToParse)) = FailedToParse

\* C12: a success payload with an unknown scheme tag or one that fails schema
\* validation makes sign fail with the malformed-response error, with no signature
C12_MalformedPayloadRejected ==
    ReturnedJson /\ MalformedPayload(Response) => MalformedResponseError

\* sign rejected a Secp256k1 payload whose recovery id is 4
C12_Witness ==
    /\ ReturnedJson
    /\ Response.scheme = "Secp256k1"
    /\ "recovery_id" \in DOMAIN Response
    /\ Response.recovery_id = Num(4)
    /\ AllHex(Response.big_r.affine_point)
    /\ AllHex(Response.s.scalar)
    /\ MalformedResponseError

\* the transport returned a Secp256k1 payload that has all its fields
ReturnedSecp256k1 ==
    /\ ReturnedJson
    /\ Response.scheme = "Secp256k1"
    /\ {"big_r", "s", "recovery_id"} \subseteq DOMAIN Response

\* C13: a Secp256k1 response is converted into a signature only if its
\* affine_point encodes 33 bytes and its scalar 32 bytes; with any other length
\* of either field sign fails on the response and returns no signature
C13_EcdsaFieldLengths ==
    /\ ReturnedSecp256k1
    /\ \/ Len(Response.big_r.affine_point) # 2 * 33
       \/ Len(Response.s.scalar) # 2 * 32
    => /\ call.outcome.kind = "error"
       /\ call.outcome.stage = "response"

\* C14: a sign call submits at most once; when the awaited call settles, with a
\* transport error, no success value or a malformed response, nothing more is sent
C14_AtMostOneSubmission ==
    [][/\ Len(call'.sent) <= 1
       /\ call.pc = "awaiting" => call'.sent = call.sent]_vars

\* the transport threw on the one submission of a call and the call is over
C14_Witness ==
    /\ call.pc = "done"
    /\ call.answer.kind = "throws"
    /\ call.outcome.kind = "error"
    /\ Len(call.sent) = 1

\* C15: when the transport's call throws, sign fails with an error that has
\* the message the transport raised, whatever that message is
C15_TransportErrorVerbatim ==
    call.pc = "done" /\ call.answer.kind = "throws" =>
        /\ call.outcome.kind = "error"
        /\ call.outcome.message = call.answer.message

\* caller i has invoked sign with a request that passes validation
ValidCall(i) ==
    /\ calls[i].pc # "idle"
    /\ SignBegin(calls[i].variant, calls[i].req).kind = "submit"

\* C16: k concurrent sign calls with valid requests, identical ones included,
\* make exactly k submissions, each call submitting its own request, and each
\* outcome is what sign makes of that call's own request and own answer
C16_CallsShareNoState ==
    /\ received = Cardinality({ i \in Slots : ValidCall(i) })
    /\ \A i \in Slots :
          ValidCall(i) =>
             /\ calls[i].sent = <<SignBegin(calls[i].variant, calls[i].req).call>>
             /\ calls[i].pc = "done" =>
                   calls[i].outcome = SignEnd(calls[i].variant, calls[i].answer)
    /\ \A i, j \in Slots :
          /\ calls[i].pc = "done" /\ calls[j].pc = "done"
          /\ calls[i].variant = calls[j].variant
          /\ calls[i].req = calls[j].req
          /\ calls[i].answer = calls[j].answer
          => calls[i].outcome = calls[j].outcome

\* every caller signed a valid request, two of them the same request at the same
\* time with different answers, and the transport received one call per caller
C16_Witness ==
    /\ \A i \in Slots : ValidCall(i) /\ calls[i].pc = "done"
    /\ calls[1].variant = calls[2].variant
    /\ calls[1].req = calls[2].req
    /\ calls[1].outcome.kind = "signature"
    /\ calls[2].outcome.kind = "error"
    /\ received = MaxCalls

\* C17: when sign returns a signature its kind is that of the requested scheme:
\* r, s and a recovery id from 0 to 3 for an ECDSA request, 64 bytes for an EdDSA
\* request, whatever payload the transport returned
C17_SignatureKindMatchesRequest ==
    call.pc = "done" /\ call.outcome.kind = "signature" =>
        /\ RequestedScheme = "ecdsa" =>
              /\ call.outcome.sig.scheme = "ecdsa"
              /\ call.outcome.sig.recovery.int \in 0..3
        /\ RequestedScheme = "eddsa" =>
              /\ call.outcome.sig.scheme = "eddsa"
              /\ Len(call.outcome.sig.bytes) = 64

\* the base58 part of a wire string does not decode to a key of the right length
NotKeyBytes(base58Part) ==
    \/ ~base58_decode(base58Part).ok
    \/ Len(base58_decode(base58Part).v) # SECP256K1_PUBLIC_KEY_BYTES

\* C18: fromNEAR fails, before it builds a curve point, for every input that
\* does not start with 'secp256k1:' or whose base58 part does not decode to a
\* key of the exact length, and no key comes out
C18_FromNEARRejects ==
    /\ wire.last.op = "fromNEAR"
    /\ \/ ~StartsWith(wire.last.input, SECP256K1_PREFIX)
       \/ NotKeyBytes(Slice(wire.last.input, Len(SECP256K1_PREFIX)))
    => /\ ~wire.last.result.ok
       /\ wire.last.result.v \in {MustStartWithPrefix, PublicKeyLength, "Unknown letter"}
       /\ wire.class = "none"

\* fromNEAR refused the compressed encoding of a point for its length
C18_Witness ==
    /\ wire.last.op = "fromNEAR"
    /\ wire.last.input =
          SECP256K1_PREFIX \o base58_encode(Point_toBytes(BASE, TRUE).v)
    /\ ~wire.last.result.ok
    /\ wire.last.result.v = PublicKeyLength

\* C19: for every key k, derived keys included, fromNEAR(k.near) has the public
\* point of k; and for every string w that fromNEAR accepts, fromNEAR(w).near is w
C19_WireRoundTrip ==
    /\ wire.last.op = "near" =>
          /\ wire.last.near.ok
          /\ wire.last.back.ok
          /\ wire.last.back.v.publicKey = wire.key.publicKey
    /\ wire.last.op = "fromNEAR" /\ wire.last.result.ok =>
          /\ OmniKey_near(wire.last.result.v).ok
          /\ OmniKey_near(wire.last.result.v).v = wire.last.input

\* a key that came from a constructor without a secret, derived or not
PublicOnlyKey == wire.src \in {"fromNEAR", "fromPoint", "fromBytes"}

\* C20: a public-only key, built by fromNEAR, fromPoint or fromBytes or derived
\* from such a key, answers canSign() with false and every read of secretKey,
\* secretBytes and secretHex raises the no-secret-key error; a key built from a
\* secret answers true and the three reads succeed
C20_SecretAccess ==
    wire.last.op = "secret" =>
        /\ PublicOnlyKey =>
              /\ wire.last.canSign = FALSE
              /\ \A read \in {wire.last.secretKey, wire.last.secretBytes,
                              wire.last.secretHex} :
                     ~read.ok /\ read.v = NoSecretKey
        /\ wire.src = "fromSecret" =>
              /\ wire.last.canSign = TRUE
              /\ wire.last.secretKey.ok
              /\ wire.last.secretBytes.ok
              /\ wire.last.secretHex.ok

\* the reads were refused on a key derived twice from a key parsed by fromNEAR
C20_Witness ==
    /\ wire.last.op = "secret"
    /\ wire.src = "fromNEAR"
    /\ wire.depth = 2
    /\ wire.last.canSign = FALSE
    /\ ~wire.last.secretHex.ok

\* the parent has been derived for two pairs
TwoChildren == tree.stage \in {"two", "crossed"}
\* the tweaks of the two pairs
Tweak1 == Epsilon(tree.pair1.predecessorId, tree.pair1.path)
Tweak2 == Epsilon(tree.pair2.predecessorId, tree.pair2.path)
TreeClasses == {"omni", "omniPub", "mock"}

\* C21: derived from the same parent for the same account and two different
\* paths, with two different tweaks, the two children have different public
\* points, in every class
C21_SiblingsDiffer ==
    /\ TwoChildren
    /\ tree.pair1.predecessorId = tree.pair2.predecessorId
    /\ tree.pair1.path # tree.pair2.path
    /\ Tweak1 # Tweak2
    => \A c \in TreeClasses :
          tree.c1[c].ok /\ tree.c2[c].ok =>
              tree.c1[c].v.publicKey # tree.c2[c].v.publicKey

\* two children of one parent for the same account and two paths, both returned
C21_Witness ==
    /\ TwoChildren
    /\ tree.pair1.predecessorId = tree.pair2.predecessorId
    /\ tree.pair1.path # tree.pair2.path
    /\ Tweak1 # Tweak2
    /\ \A c \in TreeClasses : tree.c1[c].ok /\ tree.c2[c].ok
    /\ tree.c1.omni.v.publicKey # tree.c2.omni.v.publicKey
    /\ ~tree.c1.omni.v.publicKey.inf

\* C22: every submission of sign attaches a deposit of exactly 1 yoctoNEAR and
\* a gas budget of 300 TGas, in every variant of sign
C22_DepositAndGas ==
    \A i \in 1..Len(call.sent) :
        /\ call.sent[i].attachedDeposit = 1
        /\ call.sent[i].gasTGas = 300

\* the parent has been derived for a first pair
OneChild == tree.stage \in {"one", "two", "crossed"}

\* C23: the tweak derive uses is the digest of the derivation string, read as an
\* integer and reduced modulo the group order n, so it lies in 0 .. n-1
C23_TweakReducedModN ==
    OneChild =>
        /\ Tweak1 = sha3_256(derivationPath(tree.pair1.predecessorId,
                                            tree.pair1.path)) % CurveN
        /\ Tweak1 >= 0
        /\ Tweak1 < CurveN

\* C24: a parent with the secret s yields a child with the secret
\* (epsilon + s) mod n in OmniKey.derive, MockMPCKey.derive and
\* OmniSecretKey.derive, also when epsilon + s is n or more
C24_ChildSecretModN ==
    depth = 1 /\ first.set /\ first.child.ok =>
        LET epsilon == Epsilon(first.predecessorId, first.path)
            expected == (epsilon + first.parent.secretKey) % CurveN
        IN  /\ omniV1.secretKey = expected
            /\ omni.secretKey = expected
            /\ mock.secretKey = expected
            /\ osk = expected

\* C25: derive throws when the tweak is 0 or no valid scalar, and when the child
\* secret would be 0 or the child point the point at infinity; it returns no
\* such key
C25_DegenerateChildRejected ==
    OneChild =>
        \A c \in TreeClasses :
            /\ ~(Tweak1 >= 1 /\ Tweak1 < CurveN) => ~tree.c1[c].ok
            /\ tree.c1[c].ok =>
                  /\ ~tree.c1[c].v.publicKey.inf
                  /\ tree.c1[c].v.hasSecret => tree.c1[c].v.secretKey # 0

\* C26: sign returns a signature only when the call was submitted and the
\* transport returned a success value that decodes and passes the response
\* schema; every other call ends with an error, and every call ends with one of
\* the two
C26_NoFallbackSignature ==
    /\ call.pc # "done" => call.outcome.kind = "none"
    /\ call.pc = "done" =>
          /\ call.outcome.kind \in {"signature", "error"}
          /\ call.outcome.kind = "signature" =>
                /\ Len(call.sent) = 1
                /\ ReturnedJson
                /\ MPCSignatureResponseSchema(Response)

\* a submitted call came back with a valid Secp256k1 payload and returned a
\* signature with the recovery id 3
C26_Witness ==
    /\ call.pc = "done"
    /\ Len(call.sent) = 1
    /\ ReturnedJson
    /\ MPCSignatureResponseSchema(Response)
    /\ call.outcome.kind = "signature"
    /\ call.outcome.sig.scheme = "ecdsa"
    /\ call.outcome.sig.recovery = Num(3)

\* C27: over any chain of derivations a key built from a point stays
\* public-only (canSign false) and a key built from a secret keeps a secret
\* (canSign true)
C27_DeriveKeepsMode ==
    depth >= 0 =>
        /\ OmniKey_canSign(omni) /\ OmniKey_secretKey(omni).ok
        /\ ~OmniKey_canSign(omniPub) /\ ~OmniKey_secretKey(omniPub).ok
        /\ ~mpc.hasSecret
        /\ mock.hasSecret

\* a chain of MaxDerive derivations, none of which threw, left the key with a
\* secret and the public-only key at the same point
C27_Witness ==
    /\ depth = MaxDerive
    /\ threw = {}
    /\ OmniKey_canSign(omni)
    /\ ~OmniKey_canSign(omniPub)
    /\ omni.publicKey = omniPub.publicKey
    /\ ~omni.publicKey.inf

\* C28: two different (account, path) pairs have two different derivation
\* strings, and so the same parent derived for ('a,b', 'c') and for ('a', 'b,c')
\* has two different children
C28_PairsHaveOwnString ==
    TwoChildren /\ tree.pair1 # tree.pair2 =>
        /\ derivationPath(tree.pair1.predecessorId, tree.pair1.path)
              # derivationPath(tree.pair2.predecessorId, tree.pair2.path)
        /\ /\ tree.pair1 = [predecessorId |-> <<"a", ",", "b">>, path |-> <<"c">>]
           /\ tree.pair2 = [predecessorId |-> <<"a">>, path |-> <<"b", ",", "c">>]
           /\ tree.c1.omniPub.ok
           /\ tree.c2.omniPub.ok
           => tree.c1.omniPub.v.publicKey # tree.c2.omniPub.v.publicKey

\* C29: derived for two pairs in either order, a key ends at the same public
\* point and, when it carries a secret, at the same secret scalar
C29_DerivationsCommute ==
    tree.stage = "crossed" =>
        \A c \in TreeClasses :
            tree.c12[c].ok /\ tree.c21[c].ok =>
                /\ tree.c12[c].v.publicKey = tree.c21[c].v.publicKey
                /\ tree.c12[c].v.hasSecret = tree.c21[c].v.hasSecret
                /\ tree.c12[c].v.secretKey = tree.c21[c].v.secretKey

\* two pairs with two different tweaks, applied in both orders to a key with a
\* secret: the two children differ and the two grandchildren are the same key
C29_Witness ==
    /\ tree.stage = "crossed"
    /\ Tweak1 # Tweak2
    /\ \A c \in TreeClasses : tree.c12[c].ok /\ tree.c21[c].ok
    /\ tree.c1.omni.v.publicKey # tree.c2.omni.v.publicKey
    /\ tree.c12.omni.v = tree.c21.omni.v
    /\ tree.c12.omni.v.secretKey < tree.c1.omni.v.secretKey

\* C30: getSupportedSignatureTypes does not throw; it makes one public_key view
\* call for domain 0 and then one for domain 1, whatever the first did, and
\* reports ecdsa true exactly when the first call succeeded and eddsa true
\* exactly when the second did
C30_ProbesIndependent ==
    /\ probe.pc = "domain1" => probe.views = <<ViewCall(0), ViewCall(1)>>
    /\ probe.pc = "done" =>
          /\ probe.outcome.kind = "returns"
          /\ probe.views = <<ViewCall(0), ViewCall(1)>>
          /\ probe.outcome.value.ecdsa = (probe.answer0.kind = "returns")
          /\ probe.outcome.value.eddsa = (probe.answer1.kind = "returns")

\* the first probe failed, the second succeeded, and the call returned
\* ecdsa false, eddsa true
C30_Witness ==
    /\ probe.pc = "done"
    /\ probe.answer0.kind = "throws"
    /\ probe.answer1.kind = "returns"
    /\ probe.outcome.kind = "returns"
    /\ probe.outcome.value = [ecdsa |-> FALSE, eddsa |-> TRUE]
    /\ Len(probe.views) = 2

====
